---- MODULE Spec2Model ----
(***************************************************************************)
(* State-machine model of the file-type detection engine: the detector     *)
(* pipeline (FileTypeParser.fromTokenizer), the confident and imprecise    *)
(* detectors with their signature battery, the container probes, the       *)
(* facade calls (fromBuffer, fromStream, toDetectionStream) and the        *)
(* tokenizer they read through.                                            *)
(*                                                                         *)
(* Bytes are integers 0..255.  A string is the sequence of its UTF-16 code *)
(* units.  A detection is a process d; one action is one turn of the       *)
(* JavaScript event loop, i.e. the code between two awaits.                *)
(***************************************************************************)
EXTENDS Integers, Sequences, FiniteSets, TLC

\* ------------------------------------------------------------------ bounds
\* Largest mpegOffsetTolerance the parser is constructed with.
MaxTolerance == 2
\* Largest number of custom detectors handed to the constructor.
MaxCustom == 2
\* Largest sampleSize passed to toDetectionStream.
MaxSample == 3
\* Longest input of the MPEG frame scan.
MaxMpegLen == 4
\* Longest source of a detection stream (apart from the named ones).
MaxSource == 3
\* Largest number of chunks after the signature of a PNG input.
MaxChunks == 3
\* Largest number of entries of a ZIP input.
MaxEntries == 2
MaxSkipped == 2
MaxString == 3
MaxObjects == 2
MaxTags == 2
\* Longest pattern and mask, and largest offset, of a call of check.
MaxPattern == 2

\* --------------------------------------------------------------- constants
reasonableDetectionSizeInBytes == 4100
\* Number.MAX_SAFE_INTEGER stands for "size unknown, read until EOF".  It is
\* 2^53 - 1 in the program; here it is the largest integer the checker holds,
\* which likewise exceeds every position plus every length the model forms.
MAX_SAFE_INTEGER == 2147483647
\* What reading a typed array outside its bounds yields (JavaScript undefined).
Undefined == -1

Min(a, b) == IF a < b THEN a ELSE b
Max(a, b) == IF a > b THEN a ELSE b

\* Bitwise and of two naturals.
RECURSIVE And(_, _)
And(a, b) ==
  IF a = 0 \/ b = 0 THEN 0
  ELSE (a % 2) * (b % 2) + 2 * And(a \div 2, b \div 2)

\* Bitwise or of two naturals.
RECURSIVE Or(_, _)
Or(a, b) ==
  IF a = 0 THEN b ELSE IF b = 0 THEN a
  ELSE Max(a % 2, b % 2) + 2 * Or(a \div 2, b \div 2)

\* x ?? 0
Nz(x) == IF x = Undefined THEN 0 ELSE x

RECURSIVE SumSeq(_)
SumSeq(s) ==
  IF Len(s) = 0 THEN 0
  ELSE IF Len(s) = 1 THEN s[1]
  ELSE SumSeq(SubSeq(s, 1, Len(s) \div 2)) + SumSeq(SubSeq(s, Len(s) \div 2 + 1, Len(s)))

Zeros(n) == [i \in 1..n |-> 0]

\* ---------------------------------------------------------- typed arrays
\* new Uint8Array(n): n zero bytes.  Only the written prefix is held; the
\* bytes after it are the zeros the array was created with.
Uint8Array(n) == [len |-> n, bytes |-> <<>>]

\* buffer[i]
At(buffer, i) ==
  IF i < 0 \/ i >= buffer.len THEN Undefined
  ELSE IF i < Len(buffer.bytes) THEN buffer.bytes[i + 1]
  ELSE 0

\* The effect of peekBuffer / readBuffer on the target array: the bytes got
\* overwrite its start, what lies after them stays.
Fill(buffer, got) ==
  [buffer EXCEPT !.bytes = got \o SubSeq(buffer.bytes, Len(got) + 1, Len(buffer.bytes))]

\* buffer[from .. to) with ?? 0 applied
Slice0(buffer, from, to) == [i \in 1..(to - from) |-> Nz(At(buffer, from + i - 1))]

\* ------------------------------------------------------ pattern predicates
NoOpt == [offset |-> 0, masked |-> FALSE, mask |-> <<>>]
Off(o) == [offset |-> o, masked |-> FALSE, mask |-> <<>>]
Msk(o, m) == [offset |-> o, masked |-> TRUE, mask |-> m]

\* Variant: without a mask too, a byte beyond the end of the buffer reads as zero.
_checkZeroBeyond(buffer, headers, options) ==
  \A index \in 0..(Len(headers) - 1) :
    headers[index + 1] =
      IF options.masked
      THEN And(IF index < Len(options.mask) THEN options.mask[index + 1] ELSE 0,
               Nz(At(buffer, index + options.offset)))
      ELSE Nz(At(buffer, index + options.offset))

_check(buffer, headers, options) ==
  \A index \in 0..(Len(headers) - 1) :
    IF options.masked
    THEN headers[index + 1] =
           And(IF index < Len(options.mask) THEN options.mask[index + 1] ELSE 0,
               Nz(At(buffer, index + options.offset)))
    ELSE headers[index + 1] = At(buffer, index + options.offset)

\* [...string]: the code points of a string of UTF-16 code units, each given
\* by its first code unit (what charCodeAt(0) returns for it).
RECURSIVE FirstUnits(_)
FirstUnits(string) ==
  IF string = <<>> THEN <<>>
  ELSE IF /\ Len(string) >= 2
          /\ string[1] >= 55296 /\ string[1] <= 56319
          /\ string[2] >= 56320 /\ string[2] <= 57343
       THEN <<string[1]>> \o FirstUnits(SubSeq(string, 3, Len(string)))
       ELSE <<string[1]>> \o FirstUnits(Tail(string))

RECURSIVE Utf16(_, _)
Utf16(string, lowFirst) ==
  IF string = <<>> THEN <<>>
  ELSE (IF lowFirst
        THEN <<Head(string) % 256, (Head(string) \div 256) % 256>>
        ELSE <<(Head(string) \div 256) % 256, Head(string) % 256>>)
       \o Utf16(Tail(string), lowFirst)

\* Variant: the code points of the string, whatever the encoding.
stringToBytesCodePoints(string, encoding) == FirstUnits(string)

stringToBytes(string, encoding) ==
  IF encoding = "utf-16le" THEN Utf16(string, TRUE)
  ELSE IF encoding = "utf-16be" THEN Utf16(string, FALSE)
  ELSE FirstUnits(string)

check(buffer, header, options) == _check(buffer, header, options)

checkString(buffer, header, options, encoding) ==
  check(buffer, stringToBytes(header, encoding), options)

\* ------------------------------------------------------------------ util
\* Number.parseInt(text, 8) of the bytes of a header field: leading white
\* space and one sign are skipped, then the longest run of octal digits is
\* read.  Undefined stands for NaN and for a negative value (neither can
\* equal a byte sum).
RECURSIVE OctalDigits(_, _)
OctalDigits(s, acc) ==
  IF s = <<>> \/ Head(s) < 48 \/ Head(s) > 55 THEN acc
  ELSE OctalDigits(Tail(s), acc * 8 + (Head(s) - 48))

RECURSIVE SkipWhite(_)
SkipWhite(s) ==
  IF s # <<>> /\ Head(s) \in {9, 10, 11, 12, 13, 32} THEN SkipWhite(Tail(s)) ELSE s

parseIntOctal(s) ==
  LET t == SkipWhite(s)
      u == IF t # <<>> /\ Head(t) = 43 THEN Tail(t) ELSE t
  IN  IF u = <<>> \/ Head(u) < 48 \/ Head(u) > 55 THEN Undefined
      ELSE OctalDigits(u, 0)

\* text.replace(/\0.*$/, ""): the text is cut at the first NUL that no line
\* terminator follows.
replaceNul(s) ==
  LET cuts == {i \in DOMAIN s : s[i] = 0 /\ \A j \in (i + 1)..Len(s) : s[j] \notin {10, 13}}
  IN  IF cuts = {} THEN s
      ELSE SubSeq(s, 1, (CHOOSE i \in cuts : \A j \in cuts : i <= j) - 1)

\* text.trim(): white space is removed at both ends.
WhiteSpace == {9, 10, 11, 12, 13, 32, 160}
RECURSIVE trimStart(_)
trimStart(s) == IF s # <<>> /\ Head(s) \in WhiteSpace THEN trimStart(Tail(s)) ELSE s
RECURSIVE trimEnd(_)
trimEnd(s) ==
  IF s # <<>> /\ s[Len(s)] \in WhiteSpace THEN trimEnd(SubSeq(s, 1, Len(s) - 1)) ELSE s
trim(s) == trimEnd(trimStart(s))

\* Variant: the checksum field is summed with the rest of the header.
tarHeaderChecksumMatchesWholeHeader(arrayBuffer, offset) ==
  LET readSum == parseIntOctal(trim(replaceNul(Slice0(arrayBuffer, 148, 154))))
      sum == 8 * 32 + SumSeq(Slice0(arrayBuffer, offset, offset + 512))
  IN  readSum # Undefined /\ readSum = sum

tarHeaderChecksumMatches(arrayBuffer, offset) ==
  LET readSum == parseIntOctal(trim(replaceNul(Slice0(arrayBuffer, 148, 154))))
      sum == 8 * 32 + SumSeq(Slice0(arrayBuffer, offset, offset + 148))
                    + SumSeq(Slice0(arrayBuffer, offset + 156, offset + 512))
  IN  readSum # Undefined /\ readSum = sum

\* ID3 UINT32 sync-safe token: only the last byte is masked.
uint32SyncSafeToken(buffer, offset) ==
  Or(Or(Or(And(Nz(At(buffer, offset + 3)), 127),
           Nz(At(buffer, offset + 2)) * 128),
        Nz(At(buffer, offset + 1)) * 16384),
     Nz(At(buffer, offset)) * 2097152)

\* ------------------------------------------------------------ file types
FT(ext, mime) == [ext |-> ext, mime |-> mime]
undefined == [ext |-> "", mime |-> ""]

\* What a signature test decides: return a file type (or undefined), enter a
\* container probe, or fall through to the next stage of the battery.
Return(ft) == [kind |-> "return", name |-> "", ft |-> ft]
Probe(name) == [kind |-> "probe", name |-> name, ft |-> undefined]
FallThrough == [kind |-> "next", name |-> "", ft |-> undefined]

\* ----------------------------------------------------------------- text
\* A text is the sequence of its code units.  Latin-1 decoding gives each byte
\* as a code unit.


\* String.prototype.replace(pattern, replacement) with a one-character string
\* as pattern: the first occurrence is replaced.
RECURSIVE replace(_, _, _)
replace(s, pattern, replacement) ==
  IF s = <<>> THEN <<>>
  ELSE IF Head(s) = pattern THEN <<replacement>> \o Tail(s)
  ELSE <<Head(s)>> \o replace(Tail(s), pattern, replacement)

startsWith(s, prefix) == Len(s) >= Len(prefix) /\ SubSeq(s, 1, Len(prefix)) = prefix

\* ---- ftyp at offset 4 : ISO base media file
\* new Token.StringType(4, "latin1").get(this.buffer, 8).replace("\0", " ").trim()
brandMajor(b) == trim(replace(Slice0(b, 8, 12), 0, 32))

\* switch (brandMajor)
FtypBrands ==
  {[brand |-> <<97, 118, 105, 102>>, ft |-> FT("avif", "image/avif")],
   [brand |-> <<97, 118, 105, 115>>, ft |-> FT("avif", "image/avif")],
   [brand |-> <<109, 105, 102, 49>>, ft |-> FT("heic", "image/heif")],
   [brand |-> <<109, 115, 102, 49>>, ft |-> FT("heic", "image/heif-sequence")],
   [brand |-> <<104, 101, 105, 99>>, ft |-> FT("heic", "image/heic")],
   [brand |-> <<104, 101, 105, 120>>, ft |-> FT("heic", "image/heic")],
   [brand |-> <<104, 101, 118, 99>>, ft |-> FT("heic", "image/heic-sequence")],
   [brand |-> <<104, 101, 118, 120>>, ft |-> FT("heic", "image/heic-sequence")],
   [brand |-> <<113, 116>>, ft |-> FT("mov", "video/quicktime")],
   [brand |-> <<77, 52, 86>>, ft |-> FT("m4v", "video/x-m4v")],
   [brand |-> <<77, 52, 86, 72>>, ft |-> FT("m4v", "video/x-m4v")],
   [brand |-> <<77, 52, 86, 80>>, ft |-> FT("m4v", "video/x-m4v")],
   [brand |-> <<77, 52, 80>>, ft |-> FT("m4p", "video/mp4")],
   [brand |-> <<77, 52, 66>>, ft |-> FT("m4b", "audio/mp4")],
   [brand |-> <<77, 52, 65>>, ft |-> FT("m4a", "audio/x-m4a")],
   [brand |-> <<70, 52, 86>>, ft |-> FT("f4v", "video/mp4")],
   [brand |-> <<70, 52, 80>>, ft |-> FT("f4p", "video/mp4")],
   [brand |-> <<70, 52, 65>>, ft |-> FT("f4a", "audio/mp4")],
   [brand |-> <<70, 52, 66>>, ft |-> FT("f4b", "audio/mp4")],
   [brand |-> <<99, 114, 120>>, ft |-> FT("cr3", "image/x-canon-cr3")]}

ftypType(brand) ==
  LET known == {row \in FtypBrands : row.brand = brand}
  IN  IF known # {} THEN (CHOOSE row \in known : TRUE).ft
      ELSE IF startsWith(brand, <<51, 103>>)
      THEN IF startsWith(brand, <<51, 103, 50>>) THEN FT("3g2", "video/3gpp2") ELSE FT("3gp", "video/3gpp")
      ELSE FT("mp4", "video/mp4")

ftyp(b) == ftypType(brandMajor(b))

\* ------------------------------------------------- the signature battery
\* detectConfident's tests in source order; the number after each test is
\* its line in the source.  b is this.buffer at the time of the test.

\* The 4- to 12-byte signatures after the big-endian TIFF test.
SignaturesAfterTiffBE(b) ==
  IF checkString(b, <<77, 65, 67, 32>>, NoOpt, "ascii") THEN Return(FT("ape", "audio/ape")) ELSE \* 1063
  IF check(b, <<26, 69, 223, 163>>, NoOpt) THEN Probe("ebml") ELSE \* 1071-1147
  IF checkString(b, <<83, 81, 76, 105>>, NoOpt, "ascii") THEN Return(FT("sqlite", "application/x-sqlite3")) ELSE \* 1149
  IF check(b, <<78, 69, 83, 26>>, NoOpt) THEN Return(FT("nes", "application/x-nintendo-nes-rom")) ELSE \* 1156
  IF checkString(b, <<67, 114, 50, 52>>, NoOpt, "ascii") THEN Return(FT("crx", "application/x-google-chrome-extension")) ELSE \* 1163
  IF checkString(b, <<77, 83, 67, 70>>, NoOpt, "ascii") \/ checkString(b, <<73, 83, 99, 40>>, NoOpt, "ascii") THEN Return(FT("cab", "application/vnd.ms-cab-compressed")) ELSE \* 1170
  IF check(b, <<237, 171, 238, 219>>, NoOpt) THEN Return(FT("rpm", "application/x-rpm")) ELSE \* 1177
  IF check(b, <<197, 208, 211, 198>>, NoOpt) THEN Return(FT("eps", "application/eps")) ELSE \* 1184
  IF check(b, <<40, 181, 47, 253>>, NoOpt) THEN Return(FT("zst", "application/zstd")) ELSE \* 1191
  IF check(b, <<127, 69, 76, 70>>, NoOpt) THEN Return(FT("elf", "application/x-elf")) ELSE \* 1198
  IF check(b, <<33, 66, 68, 78>>, NoOpt) THEN Return(FT("pst", "application/vnd.ms-outlook")) ELSE \* 1205
  IF checkString(b, <<80, 65, 82, 49>>, NoOpt, "ascii") \/ checkString(b, <<80, 65, 82, 69>>, NoOpt, "ascii") THEN Return(FT("parquet", "application/vnd.apache.parquet")) ELSE \* 1212
  IF checkString(b, <<116, 116, 99, 102>>, NoOpt, "ascii") THEN Return(FT("ttc", "font/collection")) ELSE \* 1219
  IF check(b, <<207, 250, 237, 254>>, NoOpt) THEN Return(FT("macho", "application/x-mach-binary")) ELSE \* 1226
  IF check(b, <<4, 34, 77, 24>>, NoOpt) THEN Return(FT("lz4", "application/x-lz4")) ELSE \* 1233
  IF checkString(b, <<114, 101, 103, 102>>, NoOpt, "ascii") THEN Return(FT("dat", "application/x-ft-windows-registry-hive")) ELSE \* 1240
  IF check(b, <<79, 84, 84, 79, 0>>, NoOpt) THEN Return(FT("otf", "font/otf")) ELSE \* 1249
  IF checkString(b, <<35, 33, 65, 77, 82>>, NoOpt, "ascii") THEN Return(FT("amr", "audio/amr")) ELSE \* 1256
  IF checkString(b, <<123, 92, 114, 116, 102>>, NoOpt, "ascii") THEN Return(FT("rtf", "application/rtf")) ELSE \* 1263
  IF check(b, <<70, 76, 86, 1>>, NoOpt) THEN Return(FT("flv", "video/x-flv")) ELSE \* 1270
  IF checkString(b, <<73, 77, 80, 77>>, NoOpt, "ascii") THEN Return(FT("it", "audio/x-it")) ELSE \* 1277
  IF checkString(b, <<45, 108, 104, 48, 45>>, Off(2), "ascii") \/ checkString(b, <<45, 108, 104, 49, 45>>, Off(2), "ascii") \/ checkString(b, <<45, 108, 104, 50, 45>>, Off(2), "ascii") \/ checkString(b, <<45, 108, 104, 51, 45>>, Off(2), "ascii") \/ checkString(b, <<45, 108, 104, 52, 45>>, Off(2), "ascii") \/ checkString(b, <<45, 108, 104, 53, 45>>, Off(2), "ascii") \/ checkString(b, <<45, 108, 104, 54, 45>>, Off(2), "ascii") \/ checkString(b, <<45, 108, 104, 55, 45>>, Off(2), "ascii") \/ checkString(b, <<45, 108, 122, 115, 45>>, Off(2), "ascii") \/ checkString(b, <<45, 108, 122, 52, 45>>, Off(2), "ascii") \/ checkString(b, <<45, 108, 122, 53, 45>>, Off(2), "ascii") \/ checkString(b, <<45, 108, 104, 100, 45>>, Off(2), "ascii") THEN Return(FT("lzh", "application/x-lzh-compressed")) ELSE \* 1284
  IF check(b, <<0, 0, 1, 186>>, NoOpt) /\ check(b, <<33>>, Msk(4, <<241>>)) THEN Return(FT("mpg", "video/MP1S")) ELSE
  IF check(b, <<0, 0, 1, 186>>, NoOpt) /\ check(b, <<68>>, Msk(4, <<196>>)) THEN Return(FT("mpg", "video/MP2P")) ELSE \* 1305-1321
  IF checkString(b, <<73, 84, 83, 70>>, NoOpt, "ascii") THEN Return(FT("chm", "application/vnd.ms-htmlhelp")) ELSE \* 1323
  IF check(b, <<202, 254, 186, 190>>, NoOpt) THEN Return(FT("class", "application/java-vm")) ELSE \* 1330
  IF checkString(b, <<46, 82, 77, 70>>, NoOpt, "ascii") THEN Return(FT("rm", "application/vnd.rn-realmedia")) ELSE \* 1337
  IF checkString(b, <<68, 82, 65, 67, 79>>, NoOpt, "ascii") THEN Return(FT("drc", "application/vnd.google.draco")) ELSE \* 1346
  IF check(b, <<253, 55, 122, 88, 90, 0>>, NoOpt) THEN Return(FT("xz", "application/x-xz")) ELSE \* 1355
  IF checkString(b, <<60, 63, 120, 109, 108, 32>>, NoOpt, "ascii") THEN Return(FT("xml", "application/xml")) ELSE \* 1362
  IF check(b, <<55, 122, 188, 175, 39, 28>>, NoOpt) THEN Return(FT("7z", "application/x-7z-compressed")) ELSE \* 1369
  IF check(b, <<82, 97, 114, 33, 26, 7>>, NoOpt) /\ (At(b, 6) = 0 \/ At(b, 6) = 1) THEN Return(FT("rar", "application/x-rar-compressed")) ELSE \* 1376
  IF checkString(b, <<115, 111, 108, 105, 100, 32>>, NoOpt, "ascii") THEN Return(FT("stl", "model/stl")) ELSE \* 1386
  IF checkString(b, <<65, 67>>, NoOpt, "ascii") THEN Probe("dwg") ELSE \* 1393-1405
  IF checkString(b, <<48, 55, 48, 55, 48, 55>>, NoOpt, "ascii") THEN Return(FT("cpio", "application/x-cpio")) ELSE \* 1407
  IF checkString(b, <<66, 76, 69, 78, 68, 69, 82>>, NoOpt, "ascii") THEN Return(FT("blend", "application/x-blender")) ELSE \* 1416
  IF checkString(b, <<33, 60, 97, 114, 99, 104, 62>>, NoOpt, "ascii") THEN Probe("ar") ELSE \* 1423-1439
  IF checkString(b, <<87, 69, 66, 86, 84, 84>>, NoOpt, "ascii") /\ (\E char7 \in {<<10>>, <<13>>, <<9>>, <<32>>, <<0>>} : checkString(b, char7, Off(6), "ascii")) THEN Return(FT("vtt", "text/vtt")) ELSE \* 1441
  IF check(b, <<137, 80, 78, 71, 13, 10, 26, 10>>, NoOpt) THEN Probe("png") ELSE \* 1456-1500
  IF check(b, <<65, 82, 82, 79, 87, 49, 0, 0>>, NoOpt) THEN Return(FT("arrow", "application/vnd.apache.arrow.file")) ELSE \* 1502
  IF check(b, <<103, 108, 84, 70, 2, 0, 0, 0>>, NoOpt) THEN Return(FT("glb", "model/gltf-binary")) ELSE \* 1509
  IF check(b, <<102, 114, 101, 101>>, Off(4)) \/ check(b, <<109, 100, 97, 116>>, Off(4)) \/ check(b, <<109, 111, 111, 118>>, Off(4)) \/ check(b, <<119, 105, 100, 101>>, Off(4)) THEN Return(FT("mov", "video/quicktime")) ELSE \* 1517
  IF check(b, <<73, 73, 82, 79, 8, 0, 0, 0, 24>>, NoOpt) THEN Return(FT("orf", "image/x-olympus-orf")) ELSE \* 1531
  IF checkString(b, <<103, 105, 109, 112, 32, 120, 99, 102, 32>>, NoOpt, "ascii") THEN Return(FT("xcf", "image/x-xcf")) ELSE \* 1538
  IF checkString(b, <<102, 116, 121, 112>>, Off(4), "ascii") /\ And(Nz(At(b, 8)), 96) # 0 THEN Return(ftyp(b)) ELSE \* 1549-1606
  IF checkString(b, <<82, 69, 71, 69, 68, 73, 84, 52, 13, 10>>, NoOpt, "ascii") THEN Return(FT("reg", "application/x-ms-regedit")) ELSE \* 1610
  IF check(b, <<82, 73, 70, 70>>, NoOpt) /\ checkString(b, <<87, 69, 66, 80>>, Off(8), "ascii") THEN Return(FT("webp", "image/webp")) ELSE
  IF check(b, <<82, 73, 70, 70>>, NoOpt) /\ check(b, <<65, 86, 73>>, Off(8)) THEN Return(FT("avi", "video/vnd.avi")) ELSE
  IF check(b, <<82, 73, 70, 70>>, NoOpt) /\ check(b, <<87, 65, 86, 69>>, Off(8)) THEN Return(FT("wav", "audio/wav")) ELSE
  IF check(b, <<82, 73, 70, 70>>, NoOpt) /\ check(b, <<81, 76, 67, 77>>, Off(8)) THEN Return(FT("qcp", "audio/qcelp")) ELSE \* 1620-1649
  IF check(b, <<73, 73, 85, 0, 24, 0, 0, 0, 136, 231, 116, 216>>, NoOpt) THEN Return(FT("rw2", "image/x-panasonic-rw2")) ELSE \* 1651
  IF check(b, <<48, 38, 178, 117, 142, 102, 207, 17, 166, 217>>, NoOpt) THEN Probe("asf") ELSE \* 1663-1736
  IF check(b, <<171, 75, 84, 88, 32, 49, 49, 187, 13, 10, 26, 10>>, NoOpt) THEN Return(FT("ktx", "image/ktx")) ELSE \* 1738
  IF (check(b, <<126, 16, 4>>, NoOpt) \/ check(b, <<126, 24, 4>>, NoOpt)) /\ check(b, <<48, 77, 73, 69>>, Off(4)) THEN Return(FT("mie", "application/x-mie")) ELSE \* 1749
  IF check(b, <<39, 10, 0, 0, 0, 0, 0, 0, 0, 0, 0, 0>>, Off(2)) THEN Return(FT("shp", "application/x-esri-shape")) ELSE \* 1759
  IF check(b, <<255, 79, 255, 81>>, NoOpt) THEN Return(FT("j2c", "image/j2c")) ELSE \* 1774
  IF check(b, <<0, 0, 0, 12, 106, 80, 32, 32, 13, 10, 135, 10>>, NoOpt) THEN Probe("jp2") ELSE \* 1781-1814
  IF check(b, <<255, 10>>, NoOpt) \/ check(b, <<0, 0, 0, 12, 74, 88, 76, 32, 13, 10, 135, 10>>, NoOpt) THEN Return(FT("jxl", "image/jxl")) ELSE \* 1816
  IF check(b, <<254, 255>>, NoOpt) THEN (IF checkString(b, <<60, 63, 120, 109, 108, 32>>, Off(2), "utf-16be") THEN Return(FT("xml", "application/xml")) ELSE Return(undefined)) ELSE \* 1828-1838
  IF check(b, <<208, 207, 17, 224, 161, 177, 26, 225>>, NoOpt) THEN Return(FT("cfb", "application/x-cfb")) ELSE \* 1840
  FallThrough

\* The big-endian TIFF test, reached when the little-endian one found nothing.
SignaturesAfterTiffLE(b) ==
  IF check(b, <<77, 77>>, NoOpt) THEN Probe("tiffBE") ELSE \* 1056-1061
  SignaturesAfterTiffBE(b)

\* The tests on the first 32 bytes, from the 2-byte signatures on.
Signatures32(b) ==
  IF check(b, <<66, 77>>, NoOpt) THEN Return(FT("bmp", "image/bmp")) ELSE \* 585
  IF check(b, <<11, 119>>, NoOpt) THEN Return(FT("ac3", "audio/vnd.dolby.dd-raw")) ELSE \* 592
  IF check(b, <<120, 1>>, NoOpt) THEN Return(FT("dmg", "application/x-apple-diskimage")) ELSE \* 599
  IF check(b, <<77, 90>>, NoOpt) THEN Return(FT("exe", "application/x-msdownload")) ELSE \* 606
  IF check(b, <<37, 33>>, NoOpt) THEN Probe("ps") ELSE \* 613-630
  IF check(b, <<31, 160>>, NoOpt) \/ check(b, <<31, 157>>, NoOpt) THEN Return(FT("Z", "application/x-compress")) ELSE \* 632
  IF check(b, <<199, 113>>, NoOpt) THEN Return(FT("cpio", "application/x-cpio")) ELSE \* 639
  IF check(b, <<96, 234>>, NoOpt) THEN Return(FT("arj", "application/x-arj")) ELSE \* 646
  IF check(b, <<239, 187, 191>>, NoOpt) THEN Probe("bom") ELSE \* 655-660
  IF check(b, <<71, 73, 70>>, NoOpt) THEN Return(FT("gif", "image/gif")) ELSE \* 662
  IF check(b, <<73, 73, 188>>, NoOpt) THEN Return(FT("jxr", "image/vnd.ms-photo")) ELSE \* 669
  IF check(b, <<31, 139, 8>>, NoOpt) THEN Probe("gzip") ELSE \* 676-696
  IF check(b, <<66, 90, 104>>, NoOpt) THEN Return(FT("bz2", "application/x-bzip2")) ELSE \* 698
  IF checkString(b, <<73, 68, 51>>, NoOpt, "ascii") THEN Probe("id3") ELSE \* 705-718
  IF checkString(b, <<77, 80, 43>>, NoOpt, "ascii") THEN Return(FT("mpc", "audio/x-musepack")) ELSE \* 721
  IF (At(b, 0) = 67 \/ At(b, 0) = 70) /\ check(b, <<87, 83>>, Off(1)) THEN Return(FT("swf", "application/x-shockwave-flash")) ELSE \* 728
  IF check(b, <<255, 216, 255>>, NoOpt) THEN (IF check(b, <<247>>, Off(3)) THEN Return(FT("jls", "image/jls")) ELSE Return(FT("jpg", "image/jpeg"))) ELSE \* 741-754
  IF check(b, <<79, 98, 106, 1>>, NoOpt) THEN Return(FT("avro", "application/avro")) ELSE \* 756
  IF checkString(b, <<70, 76, 73, 70>>, NoOpt, "ascii") THEN Return(FT("flif", "image/flif")) ELSE \* 763
  IF checkString(b, <<56, 66, 80, 83>>, NoOpt, "ascii") THEN Return(FT("psd", "image/vnd.adobe.photoshop")) ELSE \* 770
  IF checkString(b, <<77, 80, 67, 75>>, NoOpt, "ascii") THEN Return(FT("mpc", "audio/x-musepack")) ELSE \* 778
  IF checkString(b, <<70, 79, 82, 77>>, NoOpt, "ascii") THEN Return(FT("aif", "audio/aiff")) ELSE \* 785
  IF checkString(b, <<105, 99, 110, 115>>, Off(0), "ascii") THEN Return(FT("icns", "image/icns")) ELSE \* 792
  IF check(b, <<80, 75, 3, 4>>, NoOpt) THEN Probe("zip") ELSE \* 801-879
  IF checkString(b, <<79, 103, 103, 83>>, NoOpt, "ascii") THEN Probe("ogg") ELSE \* 881-940
  IF check(b, <<80, 75>>, NoOpt) /\ (At(b, 2) = 3 \/ At(b, 2) = 5 \/ At(b, 2) = 7) /\ (At(b, 3) = 4 \/ At(b, 3) = 6 \/ At(b, 3) = 8) THEN Return(FT("zip", "application/zip")) ELSE \* 942
  IF checkString(b, <<77, 84, 104, 100>>, NoOpt, "ascii") THEN Return(FT("mid", "audio/midi")) ELSE \* 957
  IF checkString(b, <<119, 79, 70, 70>>, NoOpt, "ascii") /\ (check(b, <<0, 1, 0, 0>>, Off(4)) \/ checkString(b, <<79, 84, 84, 79>>, Off(4), "ascii")) THEN Return(FT("woff", "font/woff")) ELSE \* 964
  IF checkString(b, <<119, 79, 70, 50>>, NoOpt, "ascii") /\ (check(b, <<0, 1, 0, 0>>, Off(4)) \/ checkString(b, <<79, 84, 84, 79>>, Off(4), "ascii")) THEN Return(FT("woff2", "font/woff2")) ELSE \* 975
  IF check(b, <<212, 195, 178, 161>>, NoOpt) \/ check(b, <<161, 178, 195, 212>>, NoOpt) THEN Return(FT("pcap", "application/vnd.tcpdump.pcap")) ELSE \* 986
  IF checkString(b, <<68, 83, 68, 32>>, NoOpt, "ascii") THEN Return(FT("dsf", "audio/x-dsf")) ELSE \* 997
  IF checkString(b, <<76, 90, 73, 80>>, NoOpt, "ascii") THEN Return(FT("lz", "application/x-lzip")) ELSE \* 1004
  IF checkString(b, <<102, 76, 97, 67>>, NoOpt, "ascii") THEN Return(FT("flac", "audio/flac")) ELSE \* 1011
  IF check(b, <<66, 80, 71, 251>>, NoOpt) THEN Return(FT("bpg", "image/bpg")) ELSE \* 1018
  IF checkString(b, <<119, 118, 112, 107>>, NoOpt, "ascii") THEN Return(FT("wv", "audio/wavpack")) ELSE \* 1025
  IF checkString(b, <<37, 80, 68, 70>>, NoOpt, "ascii") THEN Return(FT("pdf", "application/pdf")) ELSE \* 1032
  IF check(b, <<0, 97, 115, 109>>, NoOpt) THEN Return(FT("wasm", "application/wasm")) ELSE \* 1040
  IF check(b, <<73, 73>>, NoOpt) THEN Probe("tiffLE") ELSE \* 1048-1053
  SignaturesAfterTiffLE(b)

\* The tests after the sample has grown to 256 bytes.
Signatures256(b) ==
  IF check(b, <<97, 99, 115, 112>>, Off(36)) THEN Return(FT("icc", "application/vnd.iccprofile")) ELSE \* 1854
  IF checkString(b, <<42, 42, 65, 67, 69>>, Off(7), "ascii") /\ checkString(b, <<42, 42>>, Off(12), "ascii") THEN Return(FT("ace", "application/x-ace-compressed")) ELSE \* 1862
  IF checkString(b, <<66, 69, 71, 73, 78, 58>>, NoOpt, "ascii") /\ checkString(b, <<86, 67, 65, 82, 68>>, Off(6), "ascii") THEN Return(FT("vcf", "text/vcard")) ELSE
  IF checkString(b, <<66, 69, 71, 73, 78, 58>>, NoOpt, "ascii") /\ checkString(b, <<86, 67, 65, 76, 69, 78, 68, 65, 82>>, Off(6), "ascii") THEN Return(FT("ics", "text/calendar")) ELSE \* 1874-1888
  IF checkString(b, <<70, 85, 74, 73, 70, 73, 76, 77, 67, 67, 68, 45, 82, 65, 87>>, NoOpt, "ascii") THEN Return(FT("raf", "image/x-fujifilm-raf")) ELSE \* 1891
  IF checkString(b, <<69, 120, 116, 101, 110, 100, 101, 100, 32, 77, 111, 100, 117, 108, 101, 58>>, NoOpt, "ascii") THEN Return(FT("xm", "audio/x-xm")) ELSE \* 1898
  IF checkString(b, <<67, 114, 101, 97, 116, 105, 118, 101, 32, 86, 111, 105, 99, 101, 32, 70, 105, 108, 101>>, NoOpt, "ascii") THEN Return(FT("voc", "audio/x-voc")) ELSE \* 1905
  IF check(b, <<4, 0, 0, 0>>, NoOpt) /\ b.len >= 16 THEN Probe("asar") ELSE \* 1912-1932
  IF check(b, <<6, 14, 43, 52, 2, 5, 1, 1, 13, 1, 2, 1, 1, 2>>, NoOpt) THEN Return(FT("mxf", "application/mxf")) ELSE \* 1934
  IF checkString(b, <<83, 67, 82, 77>>, Off(44), "ascii") THEN Return(FT("s3m", "audio/x-s3m")) ELSE \* 1946
  IF check(b, <<71>>, NoOpt) /\ check(b, <<71>>, Off(188)) THEN Return(FT("mts", "video/mp2t")) ELSE \* 1954
  IF check(b, <<71>>, Off(4)) /\ check(b, <<71>>, Off(196)) THEN Return(FT("mts", "video/mp2t")) ELSE \* 1962
  IF check(b, <<66, 79, 79, 75, 77, 79, 66, 73>>, Off(60)) THEN Return(FT("mobi", "application/x-mobipocket-ebook")) ELSE \* 1972
  IF check(b, <<68, 73, 67, 77>>, Off(128)) THEN Return(FT("dcm", "application/dicom")) ELSE \* 1983
  IF check(b, <<76, 0, 0, 0, 1, 20, 2, 0, 0, 0, 0, 0, 192, 0, 0, 0, 0, 0, 0, 70>>, NoOpt) THEN Return(FT("lnk", "application/x.ms.shortcut")) ELSE \* 1990
  IF check(b, <<98, 111, 111, 107, 0, 0, 0, 0, 109, 97, 114, 107, 0, 0, 0, 0>>, NoOpt) THEN Return(FT("alias", "application/x.apple.alias")) ELSE \* 2002
  IF checkString(b, <<75, 97, 121, 100, 97, 114, 97, 32, 70, 66, 88, 32, 66, 105, 110, 97, 114, 121, 32, 32, 0>>, NoOpt, "ascii") THEN Return(FT("fbx", "application/x.autodesk.fbx")) ELSE \* 2014
  IF check(b, <<76, 80>>, Off(34)) /\ (check(b, <<0, 0, 1>>, Off(8)) \/ check(b, <<1, 0, 2>>, Off(8)) \/ check(b, <<2, 0, 2>>, Off(8))) THEN Return(FT("eot", "application/vnd.ms-fontobject")) ELSE \* 2021
  IF check(b, <<6, 6, 237, 245, 216, 29, 70, 229, 189, 49, 239, 231, 254, 116, 183, 29>>, NoOpt) THEN Return(FT("indd", "application/x-indesign")) ELSE \* 2033
  FallThrough

\* The tests after the sample has grown to 512 bytes.
Signatures512(b) ==
  IF (checkString(b, <<117, 115, 116, 97, 114>>, Off(257), "ascii") /\ (checkString(b, <<0>>, Off(262), "ascii") \/ checkString(b, <<32>>, Off(262), "ascii"))) \/ (check(b, <<0, 0, 0, 0, 0, 0>>, Off(257)) /\ tarHeaderChecksumMatches(b, 0)) THEN Return(FT("tar", "application/x-tar")) ELSE \* 2052
  IF check(b, <<255, 254>>, NoOpt) THEN
    (IF checkString(b, <<60, 63, 120, 109, 108, 32>>, Off(2), "utf-16le") THEN Return(FT("xml", "application/xml")) ELSE
     IF check(b, <<255, 14>>, Off(2)) /\ checkString(b, <<83, 107, 101, 116, 99, 104, 85, 112, 32, 77, 111, 100, 101, 108>>, Off(4), "utf-16le") THEN Return(FT("skp", "application/vnd.sketchup.skp")) ELSE
     IF checkString(b, <<87, 105, 110, 100, 111, 119, 115, 32, 82, 101, 103, 105, 115, 116, 114, 121, 32, 69, 100, 105, 116, 111, 114, 32, 86, 101, 114, 115, 105, 111, 110, 32, 53, 46, 48, 48, 13, 10>>, Off(2), "utf-16le") THEN Return(FT("reg", "application/x-ms-regedit")) ELSE
     Return(undefined)) ELSE \* 2065-2098
  IF checkString(b, <<45, 45, 45, 45, 45, 66, 69, 71, 73, 78, 32, 80, 71, 80, 32, 77, 69, 83, 83, 65, 71, 69, 45, 45, 45, 45, 45>>, NoOpt, "ascii") THEN Return(FT("pgp", "application/pgp-encrypted")) ELSE \* 2100
  FallThrough

\* -------------------------------------------------------------- tokenizer
\* The positioned byte cursor the detectors read through.  kind "buffer" is a
\* source of known size (a byte buffer, a file): its skip stops at the end of
\* the source.  kind "stream" is a sequential source of unknown size: its skip
\* reads the bytes it passes and fails at the end of the source, and its
\* operations fail with Aborted once cancellation is signalled.  A stream that
\* ends in an error (fault) gives that error to the operation that reaches
\* its end.
BufferTokenizer(bytes) ==
  [kind |-> "buffer", data |-> bytes, position |-> 0, size |-> Len(bytes), open |-> TRUE,
   fault |-> ""]

StreamTokenizer(bytes) ==
  [kind |-> "stream", data |-> bytes, position |-> 0, size |-> Undefined, open |-> TRUE,
   fault |-> ""]

Ok(t, bytes) == [error |-> "", tokenizer |-> t, bytes |-> bytes]
Fail(t, error) == [error |-> error, tokenizer |-> t, bytes |-> <<>>]

Available(t) == Max(0, Len(t.data) - t.position)

Cancelled(t, aborted) == aborted /\ t.kind = "stream"

peekBuffer(t, length, mayBeLess, aborted) ==
  LET n == Min(length, Available(t))
  IN  IF Cancelled(t, aborted) THEN Fail(t, "Aborted")
      ELSE IF n < length /\ t.fault # "" THEN Fail(t, t.fault)
      ELSE IF ~mayBeLess /\ n < length THEN Fail(t, "End-Of-Stream")
      ELSE Ok(t, SubSeq(t.data, t.position + 1, t.position + n))

readBuffer(t, length, mayBeLess, aborted) ==
  LET n == Min(length, Available(t))
  IN  IF Cancelled(t, aborted) THEN Fail(t, "Aborted")
      ELSE IF n < length /\ t.fault # "" THEN Fail(t, t.fault)
      ELSE IF ~mayBeLess /\ n < length THEN Fail(t, "End-Of-Stream")
      ELSE Ok([t EXCEPT !.position = @ + n], SubSeq(t.data, t.position + 1, t.position + n))

\* Variant: a negative length is taken as zero.
ignoreForwardOnly(t, length, aborted) ==
  IF Cancelled(t, aborted) THEN Fail(t, "Aborted")
  ELSE IF t.kind = "buffer"
       THEN Ok([t EXCEPT !.position = @ + Max(0, Min(length, Max(0, t.size - t.position)))], <<>>)
       ELSE IF length > Available(t)
       THEN Fail(t, IF t.fault # "" THEN t.fault ELSE "End-Of-Stream")
       ELSE Ok([t EXCEPT !.position = @ + Max(0, length)], <<>>)

\* ignore(length).  Over a buffer the position moves by the length, or to the
\* end when the length reaches past it: a negative length moves it back.  Over
\* a stream the bytes are read into a scratch array of that length, which
\* cannot be made for a negative length (RangeError).
ignore(t, length, aborted) ==
  IF Cancelled(t, aborted) THEN Fail(t, "Aborted")
  ELSE IF t.kind = "buffer"
       THEN Ok([t EXCEPT !.position = @ + Min(length, Max(0, t.size - t.position))], <<>>)
       ELSE IF length < 0 THEN Fail(t, "RangeError")
       ELSE IF length > Available(t)
       THEN Fail(t, IF t.fault # "" THEN t.fault ELSE "End-Of-Stream")
       ELSE Ok([t EXCEPT !.position = @ + length], <<>>)

\* if (tokenizer.fileInfo.size === undefined) tokenizer.fileInfo.size = MAX_SAFE_INTEGER
WithSize(t) == IF t.size = Undefined THEN [t EXCEPT !.size = MAX_SAFE_INTEGER] ELSE t

\* ------------------------------------------------------------------ state
Det == {1, 2, 3}          \* detection calls
Parsers == {1, 2}         \* FileTypeParser instances

VARIABLES
  customDetectors,     \* options.customDetectors, the ids of the detectors supplied
  mpegOffsetTolerance, \* options.mpegOffsetTolerance
  buffer,              \* buffer[p]: the field this.buffer of parser p
  thisTokenizer,       \* thisTokenizer[p]: the detection whose tokenizer this.tokenizer of p is (0: none)
  signal,              \* the abort signal has fired
  parser,              \* parser[d]: the parser instance call d is made on
  api,                 \* api[d]: the facade call d enters through ("" when d is not made)
  input,               \* input[d]: the argument of the call
  tokenizer,           \* tokenizer[d]: the tokenizer of call d
  pc,                  \* pc[d]: where call d stands
  frames,              \* frames[d]: the fromTokenizer activations of call d, innermost last
                       \* (outer: the tokenizer of the gzip arm that made the activation)
  ret,                 \* ret[d]: the value or error travelling up the call chain
  outcome,             \* outcome[d]: how the call's promise settled
  log,                 \* log[d]: the detectors invoked so far, in order
  stream,              \* stream[d]: the state of a toDetectionStream call
  text,                \* a string, its bytes under an encoding, and the bytes decoded
  applied,             \* a call of a helper function: its arguments and what it returned
  inflated             \* inflated[d]: the inflate streams the gzip arms of call d opened, in order

vars == <<customDetectors, mpegOffsetTolerance, buffer, thisTokenizer, signal, parser, api,
          input, tokenizer, pc, frames, ret, outcome, log, stream, text, applied, inflated>>

\* this.detectors, as the constructor builds it.
detectors(custom) == custom \o <<"core", "core.imprecise">>

Value(ft) == [ft |-> ft, error |-> ""]
Error(e) == [ft |-> undefined, error |-> e]
Pending == [state |-> "pending", ft |-> undefined, error |-> ""]
Resolved(ft) == [state |-> "resolved", ft |-> ft, error |-> ""]
Rejected(e) == [state |-> "rejected", ft |-> undefined, error |-> e]

NoTokenizer == [kind |-> "none", data |-> <<>>, position |-> 0, size |-> 0, open |-> FALSE,
                fault |-> ""]
NoStream == [variant |-> "", sampleSize |-> 0, source |-> <<>>, chunkType |-> "",
             taken |-> 0, firstChunk |-> <<>>, delivered |-> <<>>,
             flowing |-> FALSE, returned |-> FALSE]

Input(type, bytes) == [type |-> type, bytes |-> bytes]
NoInput == Input("", <<>>)

Top(d) == frames[d][Len(frames[d])]
SetTop(d, f) == [frames EXCEPT ![d] = [@ EXCEPT ![Len(@)] = f]]

\* The entry of the log for the detector running in the innermost activation.
Running(d) == CHOOSE i \in DOMAIN log[d] :
                 /\ log[d][i].depth = Len(frames[d]) /\ log[d][i].state = "running"
                 /\ \A j \in DOMAIN log[d] :
                      (log[d][j].depth = Len(frames[d]) /\ log[d][j].state = "running") => j <= i

\* ---------------------------------------------------------------- helpers
\* Variant: the inflate stream is left as it is.
cancelNot(streams) == streams

\* await stream.cancel(): the stream opened last that is still open is cancelled.
cancel(streams) ==
  LET open == {i \in DOMAIN streams : streams[i] = "open"}
  IN  IF open = {} THEN streams
      ELSE [streams EXCEPT ![CHOOSE i \in open : \A j \in open : j <= i] = "cancelled"]

\* An error that leaves `arms` gzip arms runs the finally block of each.
RECURSIVE finally(_, _)
finally(streams, arms) ==
  IF arms = 0 THEN streams ELSE finally(cancel(streams), arms - 1)

\* A detector returns v to the loop of fromTokenizer.
Returns(d, v) ==
  /\ ret' = [ret EXCEPT ![d] = Value(v)]
  /\ pc' = [pc EXCEPT ![d] = "detected"]

\* An awaited operation rejects: the error travels up to the facade call.
Throws(d, e) ==
  /\ ret' = [ret EXCEPT ![d] = Error(e)]
  /\ pc' = [pc EXCEPT ![d] = "throw"]

\* Fixed once the parser is constructed and the calls are made (and the text
\* of the string conversions, which no call touches).
cfg == <<customDetectors, mpegOffsetTolerance, parser, api, text, applied>>

\* ----------------------------------------------------------- facade calls
\* A reference call (call 3) is made once the calls under study have settled.
MayStart(d) == d = 3 => \A e \in Det \ {3} : pc[e] \in {"none", "done"}

\* Variant: no input is too short for the pipeline.
tooShortNever(length) == FALSE

\* Variant: only the empty input is too short.
tooShortOnlyEmpty(length) == length = 0

\* if (!(buffer.length > 1)) return undefined
tooShort(length) == ~(length > 1)

\* Variant: any input is taken as a buffer.
validInputAny(type) == TRUE

\* input instanceof Uint8Array || input instanceof ArrayBuffer
validInput(type) == type \in {"Uint8Array", "ArrayBuffer"}

fromBuffer(d) ==
  /\ pc[d] = "fromBuffer"
  /\ MayStart(d)
  /\ IF ~validInput(input[d].type)
     THEN /\ Throws(d, "TypeError")
          /\ UNCHANGED tokenizer
     ELSE IF tooShort(Len(input[d].bytes))
     THEN /\ ret' = [ret EXCEPT ![d] = Value(undefined)]
          /\ pc' = [pc EXCEPT ![d] = "settle"]
          /\ UNCHANGED tokenizer
     ELSE /\ tokenizer' = [tokenizer EXCEPT ![d] = BufferTokenizer(input[d].bytes)]
          /\ pc' = [pc EXCEPT ![d] = "fromTokenizer"]
          /\ UNCHANGED ret
  /\ UNCHANGED <<cfg, inflated, input, buffer, thisTokenizer, signal, frames, outcome, log, stream>>

fromStream(d) ==
  /\ pc[d] = "fromStream"
  /\ MayStart(d)
  /\ tokenizer' = [tokenizer EXCEPT ![d] = StreamTokenizer(input[d].bytes)]
  /\ pc' = [pc EXCEPT ![d] = "fromTokenizer"]
  /\ UNCHANGED <<cfg, inflated, input, buffer, thisTokenizer, signal, frames, ret, outcome, log, stream>>

\* ------------------------------------------------------------ the pipeline
\* fromTokenizer is entered, by a facade call or by the ID3 arm:
\* const initialPosition = tokenizer.position
fromTokenizer(d) ==
  /\ pc[d] = "fromTokenizer"
  /\ MayStart(d)
  /\ frames' = [frames EXCEPT ![d] =
                  Append(@, [index |-> 0, initialPosition |-> tokenizer[d].position,
                             outer |-> NoTokenizer])]
  /\ pc' = [pc EXCEPT ![d] = "loop"]
  /\ UNCHANGED <<cfg, inflated, input, buffer, thisTokenizer, signal, tokenizer, ret, outcome, log, stream>>

\* Variant: the built-in detectors come before the custom ones.
loopOrderBuiltinsFirst(custom, index) == (<<"core", "core.imprecise">> \o custom)[index + 1]

\* The detector the loop takes after `index` detectors have run.
loopOrder(custom, index) == detectors(custom)[index + 1]

\* for (const detector of this.detectors) { ... await detector.detect(tokenizer)
invokeDetector(d) ==
  /\ pc[d] = "loop"
  /\ Top(d).index < Len(detectors(customDetectors))
  /\ LET id == loopOrder(customDetectors, Top(d).index)
     IN  /\ frames' = SetTop(d, [Top(d) EXCEPT !.index = @ + 1])
         /\ log' = [log EXCEPT ![d] = Append(@, [id |-> id, depth |-> Len(frames[d]),
                                                state |-> "running", ft |-> undefined,
                                                moved |-> FALSE])]
         /\ pc' = [pc EXCEPT ![d] = IF id = "core" THEN "detectConfident"
                                    ELSE IF id = "core.imprecise" THEN "detectImprecise"
                                    ELSE "custom"]
  /\ UNCHANGED <<cfg, inflated, input, buffer, thisTokenizer, signal, tokenizer, ret, outcome, stream>>

\* The loop has run every detector: return undefined.
loopEnd(d) ==
  /\ pc[d] = "loop"
  /\ Top(d).index >= Len(detectors(customDetectors))
  /\ ret' = [ret EXCEPT ![d] = Value(undefined)]
  /\ pc' = [pc EXCEPT ![d] = "return"]
  /\ UNCHANGED <<cfg, inflated, input, buffer, thisTokenizer, signal, tokenizer, frames, outcome, log, stream>>

\* Variant: the loop stops at the first detector that returns nothing.
loopDecisionHaltsAlways(fileType, initialPosition, position) ==
  IF fileType # undefined THEN "return" ELSE "halt"

\* Variant: the loop goes on although the tokenizer has moved.
loopDecisionNoHalt(fileType, initialPosition, position) ==
  IF fileType # undefined THEN "return" ELSE "on"

\* What the loop does with what a detector returned: "return" the file type,
\* "halt" with undefined because the tokenizer has moved, or go "on".
loopDecision(fileType, initialPosition, position) ==
  IF fileType # undefined THEN "return"
  ELSE IF initialPosition # position THEN "halt"
  ELSE "on"

\* if (fileType) return fileType; if (initialPosition !== tokenizer.position) return undefined
afterDetector(d) ==
  /\ pc[d] = "detected"
  /\ LET decision == loopDecision(ret[d].ft, Top(d).initialPosition, tokenizer[d].position)
     IN  /\ log' = [log EXCEPT ![d][Running(d)] =
                      [@ EXCEPT !.state = "returned", !.ft = ret[d].ft,
                                !.moved = (Top(d).initialPosition # tokenizer[d].position)]]
         /\ ret' = [ret EXCEPT ![d] = IF decision = "return" THEN @ ELSE Value(undefined)]
         /\ pc' = [pc EXCEPT ![d] = IF decision = "on" THEN "loop" ELSE "return"]
  /\ UNCHANGED <<cfg, inflated, input, buffer, thisTokenizer, signal, tokenizer, frames, outcome, stream>>

\* fromTokenizer returns: to the ID3 arm of the detector that called it (which
\* returns the value in turn), to the gzip arm (through fromStream, which
\* closes the tokenizer of the inflated stream), or to the facade call.
fromTokenizerReturns(d) ==
  /\ pc[d] = "return"
  /\ frames' = [frames EXCEPT ![d] = SubSeq(@, 1, Len(@) - 1)]
  /\ IF Top(d).outer # NoTokenizer
     THEN /\ pc' = [pc EXCEPT ![d] = "gzipReturn"]
          /\ tokenizer' = [tokenizer EXCEPT ![d] = Top(d).outer]
     ELSE /\ pc' = [pc EXCEPT ![d] = IF Len(frames[d]) > 1 THEN "detected" ELSE "settle"]
          /\ UNCHANGED tokenizer
  /\ UNCHANGED <<cfg, inflated, input, buffer, thisTokenizer, signal, ret, outcome, log, stream>>

\* The tokenizer the facade call made: the one the outermost gzip arm was
\* working on, if any.
Unwound(d) ==
  LET gz == {i \in DOMAIN frames[d] : frames[d][i].outer # NoTokenizer}
  IN  IF gz = {} THEN tokenizer[d]
      ELSE frames[d][CHOOSE i \in gz : \A j \in gz : i <= j].outer

\* The gzip arms an activation of call d is nested in.
GzipArms(d) == Cardinality({i \in DOMAIN frames[d] : frames[d][i].outer # NoTokenizer})

\* A rejection unwinds every activation up to the facade call, through the
\* finally block of every gzip arm on the way.
propagate(d) ==
  /\ pc[d] = "throw"
  /\ frames' = [frames EXCEPT ![d] = <<>>]
  /\ tokenizer' = [tokenizer EXCEPT ![d] = Unwound(d)]
  /\ log' = [log EXCEPT ![d] = [i \in DOMAIN @ |->
                IF @[i].state = "running" THEN [@[i] EXCEPT !.state = "threw"] ELSE @[i]]]
  /\ inflated' = [inflated EXCEPT ![d] = finally(@, GzipArms(d))]
  /\ pc' = [pc EXCEPT ![d] = "settle"]
  /\ UNCHANGED <<cfg, input, buffer, thisTokenizer, signal, ret, outcome, stream>>

\* Variant: an error is turned into "no result".
SettledSwallows(v) == Resolved(v.ft)

\* An async function's promise: resolved with the value returned, rejected
\* with the error thrown (no catch on the way).
Settled(v) == IF v.error = "" THEN Resolved(v.ft) ELSE Rejected(v.error)

\* fromBuffer / fromTokenizer: the promise settles with what came up.
settle(d) ==
  /\ pc[d] = "settle"
  /\ api[d] \in {"fromBuffer", "fromTokenizer"}
  /\ outcome' = [outcome EXCEPT ![d] = Settled(ret[d])]
  /\ pc' = [pc EXCEPT ![d] = "done"]
  /\ UNCHANGED <<cfg, inflated, input, buffer, thisTokenizer, signal, tokenizer, frames, ret, log, stream>>

\* fromStream: finally { await tokenizer.close() }, then the promise settles.
closeTokenizer(d) ==
  /\ pc[d] = "settle"
  /\ api[d] = "fromStream"
  /\ tokenizer' = [tokenizer EXCEPT ![d] = [@ EXCEPT !.open = FALSE]]
  /\ outcome' = [outcome EXCEPT ![d] = Settled(ret[d])]
  /\ pc' = [pc EXCEPT ![d] = "done"]
  /\ UNCHANGED <<cfg, inflated, input, buffer, thisTokenizer, signal, frames, ret, log, stream>>

\* The caller aborts: AbortController.abort().
abort ==
  /\ ~signal
  /\ \E d \in Det : api[d] = "fromStream" /\ pc[d] # "done"
  /\ signal' = TRUE
  /\ UNCHANGED <<cfg, inflated, input, buffer, thisTokenizer, tokenizer, pc, frames, ret, outcome, log, stream>>

\* ------------------------------------------------------- custom detectors
UNICORN == <<85, 78, 73, 67, 79, 82, 78>>

\* The three detectors of the test suite.  Each yields the value returned (or
\* the error thrown) and the tokenizer it leaves.
customDetect(id, t, aborted) ==
  IF id = "mock.unicorn"
  THEN LET r == peekBuffer(t, Len(UNICORN), TRUE, aborted)
       IN  IF r.error # "" THEN [v |-> Error(r.error), tokenizer |-> t]
           ELSE [v |-> Value(IF r.bytes = UNICORN THEN FT("unicorn", "application/unicorn")
                             ELSE undefined),
                 tokenizer |-> t]
  ELSE IF id = "mock.png"
  THEN [v |-> Value(FT("mockPng", "image/mockPng")), tokenizer |-> t]
  ELSE \* mock.dirtyTokenizer: readBuffer is not awaited, its rejection is lost
       [v |-> Value(undefined), tokenizer |-> readBuffer(t, 1, TRUE, aborted).tokenizer]

customDetector(d) ==
  /\ pc[d] = "custom"
  /\ LET r == customDetect(log[d][Running(d)].id, tokenizer[d], signal)
     IN  /\ tokenizer' = [tokenizer EXCEPT ![d] = r.tokenizer]
         /\ ret' = [ret EXCEPT ![d] = r.v]
         /\ pc' = [pc EXCEPT ![d] = IF r.v.error = "" THEN "detected" ELSE "throw"]
  /\ UNCHANGED <<cfg, inflated, input, buffer, thisTokenizer, signal, frames, outcome, log, stream>>

\* ---------------------------------------------------- the confident detector
\* Variant: the sample must have the length asked for.
peekSampleExact(t, length, aborted) == peekBuffer(t, length, FALSE, aborted)

\* await tokenizer.peekBuffer(this.buffer, {length, mayBeLess: true}): the
\* sample may be shorter than asked for.
peekSample(t, length, aborted) == peekBuffer(t, length, TRUE, aborted)

\* The peek writes into the array this.buffer names when the call is made.
Peeked(d, r) == buffer' = [buffer EXCEPT ![parser[d]] = Fill(@, r.bytes)]

\* Variant: the sample buffer of the parser is kept from one detection to the next.
keepSampleBuffer(old) == old

\* this.buffer = new Uint8Array(reasonableDetectionSizeInBytes)
newSampleBuffer(old) == Uint8Array(reasonableDetectionSizeInBytes)

\* detectConfident is entered: fresh sample buffer, size defaulted, 32 bytes peeked.
detectConfident(d) ==
  /\ pc[d] = "detectConfident"
  /\ LET p == parser[d]
         t == WithSize(tokenizer[d])
         r == peekSample(t, 32, signal)
     IN  /\ tokenizer' = [tokenizer EXCEPT ![d] = t]
         /\ thisTokenizer' = [thisTokenizer EXCEPT ![p] = d]
         /\ IF r.error # ""
            THEN /\ buffer' = [buffer EXCEPT ![p] = newSampleBuffer(@)]
                 /\ Throws(d, r.error)
            ELSE /\ buffer' = [buffer EXCEPT ![p] =
                                 Fill(newSampleBuffer(buffer[p]), r.bytes)]
                 /\ pc' = [pc EXCEPT ![d] = "signatures32"]
                 /\ UNCHANGED ret
  /\ UNCHANGED <<cfg, inflated, input, signal, frames, outcome, log, stream>>

\* What a stage of the battery leads to: a return, a probe, or the next peek.
Stage(d, r, length, next) ==
  IF r.kind = "return"
  THEN /\ Returns(d, r.ft)
       /\ UNCHANGED buffer
  ELSE IF r.kind = "probe"
  THEN /\ pc' = [pc EXCEPT ![d] = r.name]
       /\ UNCHANGED <<buffer, ret>>
  ELSE LET p == peekSample(tokenizer[d], Min(length, tokenizer[d].size), signal)
       IN  IF p.error # ""
           THEN /\ Throws(d, p.error)
                /\ UNCHANGED buffer
           ELSE /\ Peeked(d, p)
                /\ pc' = [pc EXCEPT ![d] = next]
                /\ UNCHANGED ret

\* The tests on the 32-byte sample, then: increase sample size from 32 to 256.
signatures32(d) ==
  /\ pc[d] = "signatures32"
  /\ Stage(d, Signatures32(buffer[parser[d]]), 256, "signatures256")
  /\ UNCHANGED <<cfg, inflated, input, thisTokenizer, signal, tokenizer, frames, outcome, log, stream>>

\* The tests on the 256-byte sample, then: increase sample size from 256 to 512.
signatures256(d) ==
  /\ pc[d] = "signatures256"
  /\ Stage(d, Signatures256(buffer[parser[d]]), 512, "signatures512")
  /\ UNCHANGED <<cfg, inflated, input, thisTokenizer, signal, tokenizer, frames, outcome, log, stream>>

\* The tests on the 512-byte sample; after the last one: return undefined.
signatures512(d) ==
  /\ pc[d] = "signatures512"
  /\ LET r == Signatures512(buffer[parser[d]])
     IN  IF r.kind = "probe"
         THEN /\ pc' = [pc EXCEPT ![d] = r.name]
              /\ UNCHANGED ret
         ELSE Returns(d, r.ft)
  /\ UNCHANGED <<cfg, inflated, input, buffer, thisTokenizer, signal, tokenizer, frames, outcome, log, stream>>

\* ---- %! : PostScript
psPeek(d) ==
  /\ pc[d] = "ps"
  /\ LET r == peekSample(tokenizer[d], 24, signal)
     IN  IF r.error # ""
         THEN /\ Throws(d, r.error)
              /\ UNCHANGED buffer
         ELSE /\ Peeked(d, r)
              /\ pc' = [pc EXCEPT ![d] = "ps2"]
              /\ UNCHANGED ret
  /\ UNCHANGED <<cfg, inflated, input, thisTokenizer, signal, tokenizer, frames, outcome, log, stream>>

PostScript(b) ==
  IF /\ checkString(b, <<80, 83, 45, 65, 100, 111, 98, 101, 45>>, Off(2), "ascii")
     /\ checkString(b, <<32, 69, 80, 83, 70, 45>>, Off(14), "ascii")
  THEN FT("eps", "application/eps")
  ELSE FT("ps", "application/postscript")

ps(d) ==
  /\ pc[d] = "ps2"
  /\ Returns(d, PostScript(buffer[parser[d]]))
  /\ UNCHANGED <<cfg, inflated, input, buffer, thisTokenizer, signal, tokenizer, frames, outcome, log, stream>>

\* ---- EF BB BF : UTF-8 byte order mark.  tokenizer.ignore(3) is not awaited:
\* a rejection of it reaches nobody.  Then detectConfident is entered again.
\* Variant: the skip has not taken effect when detectConfident is entered.
bomSkipNotYet(t, aborted) == t

\* tokenizer.ignore(3), as the tokenizer is when detectConfident is entered.
bomSkip(t, aborted) == ignore(t, 3, aborted).tokenizer

bom(d) ==
  /\ pc[d] = "bom"
  /\ tokenizer' = [tokenizer EXCEPT ![d] = bomSkip(@, signal)]
  /\ pc' = [pc EXCEPT ![d] = "detectConfident"]
  /\ UNCHANGED <<cfg, inflated, input, buffer, thisTokenizer, signal, frames, ret, outcome, log, stream>>

\* ---- ID3 : await tokenizer.ignore(6)
id3(d) ==
  /\ pc[d] = "id3"
  /\ LET r == ignore(tokenizer[d], 6, signal)
     IN  IF r.error # ""
         THEN /\ Throws(d, r.error)
              /\ UNCHANGED tokenizer
         ELSE /\ tokenizer' = [tokenizer EXCEPT ![d] = r.tokenizer]
              /\ pc' = [pc EXCEPT ![d] = "id3Length"]
              /\ UNCHANGED ret
  /\ UNCHANGED <<cfg, inflated, input, buffer, thisTokenizer, signal, frames, outcome, log, stream>>

\* Variant: a header that ends exactly at the end of the source counts as reaching past it.
id3ExceedsOrReaches(position, id3HeaderLength, size) == position + id3HeaderLength >= size

\* if (tokenizer.position + id3HeaderLength > tokenizer.fileInfo.size)
id3Exceeds(position, id3HeaderLength, size) == position + id3HeaderLength > size

\* readToken(uint32SyncSafeToken); the header reaches past the end: mp3; else
\* skip the header and run the whole pipeline on what follows.
id3Length(d) ==
  /\ pc[d] = "id3Length"
  /\ LET r == readBuffer(tokenizer[d], 4, FALSE, signal)
         id3HeaderLength == uint32SyncSafeToken([len |-> 4, bytes |-> r.bytes], 0)
         s == ignore(r.tokenizer, id3HeaderLength, signal)
     IN  IF r.error # ""
         THEN /\ Throws(d, r.error)
              /\ UNCHANGED tokenizer
         ELSE IF id3Exceeds(r.tokenizer.position, id3HeaderLength, r.tokenizer.size)
         THEN /\ Returns(d, FT("mp3", "audio/mpeg"))
              /\ tokenizer' = [tokenizer EXCEPT ![d] = r.tokenizer]
         ELSE IF s.error # ""
         THEN /\ Throws(d, s.error)
              /\ tokenizer' = [tokenizer EXCEPT ![d] = r.tokenizer]
         ELSE /\ tokenizer' = [tokenizer EXCEPT ![d] = s.tokenizer]
              /\ pc' = [pc EXCEPT ![d] = "fromTokenizer"]
              /\ UNCHANGED ret
  /\ UNCHANGED <<cfg, inflated, input, buffer, thisTokenizer, signal, frames, outcome, log, stream>>

\* ---- OggS : await tokenizer.ignore(28)
ogg(d) ==
  /\ pc[d] = "ogg"
  /\ LET r == ignore(tokenizer[d], 28, signal)
     IN  IF r.error # ""
         THEN /\ Throws(d, r.error)
              /\ UNCHANGED tokenizer
         ELSE /\ tokenizer' = [tokenizer EXCEPT ![d] = r.tokenizer]
              /\ pc' = [pc EXCEPT ![d] = "oggType"]
              /\ UNCHANGED ret
  /\ UNCHANGED <<cfg, inflated, input, buffer, thisTokenizer, signal, frames, outcome, log, stream>>

\* The codec named by the 8 bytes after the Ogg page header.
OggCodec(type) ==
  IF _check(type, <<79, 112, 117, 115, 72, 101, 97, 100>>, NoOpt)
  THEN FT("opus", "audio/ogg; codecs=opus")
  ELSE IF _check(type, <<128, 116, 104, 101, 111, 114, 97>>, NoOpt) THEN FT("ogv", "video/ogg")
  ELSE IF _check(type, <<1, 118, 105, 100, 101, 111, 0>>, NoOpt) THEN FT("ogm", "video/ogg")
  ELSE IF _check(type, <<127, 70, 76, 65, 67>>, NoOpt) THEN FT("oga", "audio/ogg")
  ELSE IF _check(type, <<83, 112, 101, 101, 120, 32, 32>>, NoOpt) THEN FT("spx", "audio/ogg")
  ELSE IF _check(type, <<1, 118, 111, 114, 98, 105, 115>>, NoOpt) THEN FT("ogg", "audio/ogg")
  ELSE FT("ogx", "application/ogg")

\* const type = new Uint8Array(8); await tokenizer.readBuffer(type)
oggType(d) ==
  /\ pc[d] = "oggType"
  /\ LET r == readBuffer(tokenizer[d], 8, FALSE, signal)
     IN  IF r.error # ""
         THEN /\ Throws(d, r.error)
              /\ UNCHANGED tokenizer
         ELSE /\ tokenizer' = [tokenizer EXCEPT ![d] = r.tokenizer]
              /\ Returns(d, OggCodec(Fill(Uint8Array(8), r.bytes)))
  /\ UNCHANGED <<cfg, inflated, input, buffer, thisTokenizer, signal, frames, outcome, log, stream>>

\* ---------------------------------------------------- the imprecise detector
\* detectImprecise is entered: size defaulted, 8 bytes peeked.
detectImprecise(d) ==
  /\ pc[d] = "detectImprecise"
  /\ LET t == WithSize(tokenizer[d])
         r == peekSample(t, Min(8, t.size), signal)
     IN  /\ tokenizer' = [tokenizer EXCEPT ![d] = t]
         /\ IF r.error # ""
            THEN /\ Throws(d, r.error)
                 /\ UNCHANGED buffer
            ELSE /\ Peeked(d, r)
                 /\ pc' = [pc EXCEPT ![d] = "imprecise8"]
                 /\ UNCHANGED ret
  /\ UNCHANGED <<cfg, inflated, input, thisTokenizer, signal, frames, outcome, log, stream>>

Imprecise8(b) ==
  IF check(b, <<0, 0, 1, 186>>, NoOpt) \/ check(b, <<0, 0, 1, 179>>, NoOpt)
  THEN Return(FT("mpg", "video/mpeg"))
  ELSE IF check(b, <<0, 1, 0, 0, 0>>, NoOpt) THEN Return(FT("ttf", "font/ttf"))
  ELSE IF check(b, <<0, 0, 1, 0>>, NoOpt) THEN Return(FT("ico", "image/x-icon"))
  ELSE IF check(b, <<0, 0, 2, 0>>, NoOpt) THEN Return(FT("cur", "image/x-icon"))
  ELSE FallThrough

\* The tests on the 8-byte sample, then: adjust buffer to mpegOffsetTolerance.
imprecise8(d) ==
  /\ pc[d] = "imprecise8"
  /\ Stage(d, Imprecise8(buffer[parser[d]]), 2 + mpegOffsetTolerance, "scanMpeg")
  /\ UNCHANGED <<cfg, inflated, input, thisTokenizer, signal, tokenizer, frames, outcome, log, stream>>

scanMpeg(b, offset) ==
  IF check(b, <<255, 224>>, Msk(offset, <<255, 224>>))
  THEN IF check(b, <<16>>, Msk(offset + 1, <<22>>)) THEN FT("aac", "audio/aac")
       ELSE IF check(b, <<2>>, Msk(offset + 1, <<6>>)) THEN FT("mp3", "audio/mpeg")
       ELSE IF check(b, <<4>>, Msk(offset + 1, <<6>>)) THEN FT("mp2", "audio/mpeg")
       ELSE IF check(b, <<6>>, Msk(offset + 1, <<6>>)) THEN FT("mp1", "audio/mpeg")
       ELSE undefined
  ELSE undefined

\* for (let depth = from; depth <= tolerance; ++depth) { scanMpeg(depth) ... }
RECURSIVE scanDepths(_, _, _)
scanDepths(b, depth, tolerance) ==
  IF depth > tolerance THEN undefined
  ELSE IF scanMpeg(b, depth) # undefined THEN scanMpeg(b, depth)
  ELSE scanDepths(b, depth + 1, tolerance)

\* Variant: only offset 0 is scanned.
mpegScanSyncedOnly(b, tolerance) == scanMpeg(b, 0)

\* if (this.buffer.length >= 2 + tolerance) scan depths 0..tolerance
mpegScan(b, tolerance) ==
  IF b.len >= 2 + tolerance THEN scanDepths(b, 0, tolerance) ELSE undefined

scanMpegLoop(d) ==
  /\ pc[d] = "scanMpeg"
  /\ Returns(d, mpegScan(buffer[parser[d]], mpegOffsetTolerance))
  /\ UNCHANGED <<cfg, inflated, input, buffer, thisTokenizer, signal, tokenizer, frames, outcome, log, stream>>

\* ------------------------------------------------------ container probes
\* An awaited tokenizer operation inside a probe: its rejection is thrown,
\* otherwise the probe goes on at `next` with the tokenizer it leaves.
Awaited(d, r, next) ==
  IF r.error # ""
  THEN /\ Throws(d, r.error)
       /\ UNCHANGED tokenizer
  ELSE /\ tokenizer' = [tokenizer EXCEPT ![d] = r.tokenizer]
       /\ pc' = [pc EXCEPT ![d] = next]
       /\ UNCHANGED ret

\* Token.INT32_BE: a signed 32-bit integer, most significant byte first.
INT32_BE(b) ==
  ((IF b[1] >= 128 THEN b[1] - 256 ELSE b[1]) * 16777216) + b[2] * 65536 + b[3] * 256 + b[4]

\* ---- 89 50 4E 47 0D 0A 1A 0A : PNG.  await tokenizer.ignore(8)
png(d) ==
  /\ pc[d] = "png"
  /\ Awaited(d, ignore(tokenizer[d], 8, signal), "pngChunk")
  /\ UNCHANGED <<cfg, inflated, input, buffer, thisTokenizer, signal, frames, outcome, log, stream>>

IDAT == <<73, 68, 65, 84>>
acTL == <<97, 99, 84, 76>>

\* Variant: the type of a chunk is looked at before its length.
pngChunkTypeFirst(length, type) ==
  IF type = IDAT THEN Return(FT("png", "image/png"))
  ELSE IF type = acTL THEN Return(FT("apng", "image/apng"))
  ELSE IF length < 0 THEN Return(undefined)
  ELSE FallThrough

\* What a chunk header decides: invalid length, IDAT, acTL, or skip the chunk.
pngChunk(length, type) ==
  IF length < 0 THEN Return(undefined)
  ELSE IF type = IDAT THEN Return(FT("png", "image/png"))
  ELSE IF type = acTL THEN Return(FT("apng", "image/apng"))
  ELSE FallThrough

\* do { readChunkHeader(); ...; await tokenizer.ignore(chunk.length + 4) }
\* while (tokenizer.position + 8 < tokenizer.fileInfo.size); return png
pngWalk(d) ==
  /\ pc[d] = "pngChunk"
  /\ LET r == readBuffer(tokenizer[d], 8, FALSE, signal)
         length == INT32_BE(SubSeq(r.bytes, 1, 4))
         chunk == pngChunk(length, SubSeq(r.bytes, 5, 8))
         s == ignore(r.tokenizer, length + 4, signal)
     IN  IF r.error # ""
         THEN /\ Throws(d, r.error)
              /\ UNCHANGED tokenizer
         ELSE IF chunk.kind = "return"
         THEN /\ Returns(d, chunk.ft)
              /\ tokenizer' = [tokenizer EXCEPT ![d] = r.tokenizer]
         ELSE IF s.error # ""
         THEN /\ Throws(d, s.error)
              /\ tokenizer' = [tokenizer EXCEPT ![d] = r.tokenizer]
         ELSE IF s.tokenizer.position + 8 < s.tokenizer.size
         THEN /\ tokenizer' = [tokenizer EXCEPT ![d] = s.tokenizer]
              /\ UNCHANGED <<pc, ret>>
         ELSE /\ Returns(d, FT("png", "image/png"))
              /\ tokenizer' = [tokenizer EXCEPT ![d] = s.tokenizer]
  /\ UNCHANGED <<cfg, inflated, input, buffer, thisTokenizer, signal, frames, outcome, log, stream>>

\* ---- PK 03 04 : ZIP
\* String.prototype.toLowerCase, on the code units of ASCII text.
toLowerCase(s) == [i \in DOMAIN s |-> IF s[i] >= 65 /\ s[i] <= 90 THEN s[i] + 32 ELSE s[i]]

\* String.prototype.slice(start, end), on a sequence.
slice(s, start, end) == SubSeq(s, Max(0, start) + 1, Min(end, Len(s)))

\* The places (counted from 0) at which `pattern` occurs in s.
Occurrences(s, pattern) ==
  {i \in 0..(Len(s) - Len(pattern)) : SubSeq(s, i + 1, i + Len(pattern)) = pattern}
\* String.prototype.indexOf / lastIndexOf / includes
indexOf(s, pattern) ==
  IF Occurrences(s, pattern) = {} THEN -1
  ELSE CHOOSE i \in Occurrences(s, pattern) : \A j \in Occurrences(s, pattern) : i <= j
lastIndexOf(s, pattern) ==
  IF Occurrences(s, pattern) = {} THEN -1
  ELSE CHOOSE i \in Occurrences(s, pattern) : \A j \in Occurrences(s, pattern) : i >= j
includes(s, pattern) == Occurrences(s, pattern) # {}

\* The MIME types getFileTypeFromMimeType knows: the text, the extension, and
\* the MIME type reported ("" when it is the text itself).
MimeTypeTable ==
  {
   [text |-> <<97, 112, 112, 108, 105, 99, 97, 116, 105, 111, 110, 47, 101, 112, 117, 98, 43, 122, 105, 112>>,
    ext |-> "epub", mime |-> "application/epub+zip", same |-> TRUE], \* 201
   [text |-> <<97, 112, 112, 108, 105, 99, 97, 116, 105, 111, 110, 47, 118, 110, 100, 46, 111, 97, 115, 105, 115, 46, 111, 112, 101, 110, 100, 111, 99, 117, 109, 101, 110, 116, 46, 116, 101, 120, 116>>,
    ext |-> "odt", mime |-> "application/vnd.oasis.opendocument.text", same |-> TRUE], \* 206
   [text |-> <<97, 112, 112, 108, 105, 99, 97, 116, 105, 111, 110, 47, 118, 110, 100, 46, 111, 97, 115, 105, 115, 46, 111, 112, 101, 110, 100, 111, 99, 117, 109, 101, 110, 116, 46, 116, 101, 120, 116, 45, 116, 101, 109, 112, 108, 97, 116, 101>>,
    ext |-> "ott", mime |-> "application/vnd.oasis.opendocument.text-template", same |-> TRUE], \* 211
   [text |-> <<97, 112, 112, 108, 105, 99, 97, 116, 105, 111, 110, 47, 118, 110, 100, 46, 111, 97, 115, 105, 115, 46, 111, 112, 101, 110, 100, 111, 99, 117, 109, 101, 110, 116, 46, 115, 112, 114, 101, 97, 100, 115, 104, 101, 101, 116>>,
    ext |-> "ods", mime |-> "application/vnd.oasis.opendocument.spreadsheet", same |-> TRUE], \* 216
   [text |-> <<97, 112, 112, 108, 105, 99, 97, 116, 105, 111, 110, 47, 118, 110, 100, 46, 111, 97, 115, 105, 115, 46, 111, 112, 101, 110, 100, 111, 99, 117, 109, 101, 110, 116, 46, 115, 112, 114, 101, 97, 100, 115, 104, 101, 101, 116, 45, 116, 101, 109, 112, 108, 97, 116, 101>>,
    ext |-> "ots", mime |-> "application/vnd.oasis.opendocument.spreadsheet-template", same |-> TRUE], \* 221
   [text |-> <<97, 112, 112, 108, 105, 99, 97, 116, 105, 111, 110, 47, 118, 110, 100, 46, 111, 97, 115, 105, 115, 46, 111, 112, 101, 110, 100, 111, 99, 117, 109, 101, 110, 116, 46, 112, 114, 101, 115, 101, 110, 116, 97, 116, 105, 111, 110>>,
    ext |-> "odp", mime |-> "application/vnd.oasis.opendocument.presentation", same |-> TRUE], \* 226
   [text |-> <<97, 112, 112, 108, 105, 99, 97, 116, 105, 111, 110, 47, 118, 110, 100, 46, 111, 97, 115, 105, 115, 46, 111, 112, 101, 110, 100, 111, 99, 117, 109, 101, 110, 116, 46, 112, 114, 101, 115, 101, 110, 116, 97, 116, 105, 111, 110, 45, 116, 101, 109, 112, 108, 97, 116, 101>>,
    ext |-> "otp", mime |-> "application/vnd.oasis.opendocument.presentation-template", same |-> TRUE], \* 231
   [text |-> <<97, 112, 112, 108, 105, 99, 97, 116, 105, 111, 110, 47, 118, 110, 100, 46, 111, 97, 115, 105, 115, 46, 111, 112, 101, 110, 100, 111, 99, 117, 109, 101, 110, 116, 46, 103, 114, 97, 112, 104, 105, 99, 115>>,
    ext |-> "odg", mime |-> "application/vnd.oasis.opendocument.graphics", same |-> TRUE], \* 236
   [text |-> <<97, 112, 112, 108, 105, 99, 97, 116, 105, 111, 110, 47, 118, 110, 100, 46, 111, 97, 115, 105, 115, 46, 111, 112, 101, 110, 100, 111, 99, 117, 109, 101, 110, 116, 46, 103, 114, 97, 112, 104, 105, 99, 115, 45, 116, 101, 109, 112, 108, 97, 116, 101>>,
    ext |-> "otg", mime |-> "application/vnd.oasis.opendocument.graphics-template", same |-> TRUE], \* 241
   [text |-> <<97, 112, 112, 108, 105, 99, 97, 116, 105, 111, 110, 47, 118, 110, 100, 46, 111, 112, 101, 110, 120, 109, 108, 102, 111, 114, 109, 97, 116, 115, 45, 111, 102, 102, 105, 99, 101, 100, 111, 99, 117, 109, 101, 110, 116, 46, 112, 114, 101, 115, 101, 110, 116, 97, 116, 105, 111, 110, 109, 108, 46, 115, 108, 105, 100, 101, 115, 104, 111, 119>>,
    ext |-> "ppsx", mime |-> "application/vnd.openxmlformats-officedocument.presentationml.slideshow", same |-> TRUE], \* 246
   [text |-> <<97, 112, 112, 108, 105, 99, 97, 116, 105, 111, 110, 47, 118, 110, 100, 46, 111, 112, 101, 110, 120, 109, 108, 102, 111, 114, 109, 97, 116, 115, 45, 111, 102, 102, 105, 99, 101, 100, 111, 99, 117, 109, 101, 110, 116, 46, 115, 112, 114, 101, 97, 100, 115, 104, 101, 101, 116, 109, 108, 46, 115, 104, 101, 101, 116>>,
    ext |-> "xlsx", mime |-> "application/vnd.openxmlformats-officedocument.spreadsheetml.sheet", same |-> TRUE], \* 251
   [text |-> <<97, 112, 112, 108, 105, 99, 97, 116, 105, 111, 110, 47, 118, 110, 100, 46, 109, 115, 45, 101, 120, 99, 101, 108, 46, 115, 104, 101, 101, 116, 46, 109, 97, 99, 114, 111, 101, 110, 97, 98, 108, 101, 100>>,
    ext |-> "xlsm", mime |-> "application/vnd.ms-excel.sheet.macroenabled.12", same |-> FALSE], \* 256
   [text |-> <<97, 112, 112, 108, 105, 99, 97, 116, 105, 111, 110, 47, 118, 110, 100, 46, 111, 112, 101, 110, 120, 109, 108, 102, 111, 114, 109, 97, 116, 115, 45, 111, 102, 102, 105, 99, 101, 100, 111, 99, 117, 109, 101, 110, 116, 46, 115, 112, 114, 101, 97, 100, 115, 104, 101, 101, 116, 109, 108, 46, 116, 101, 109, 112, 108, 97, 116, 101>>,
    ext |-> "xltx", mime |-> "application/vnd.openxmlformats-officedocument.spreadsheetml.template", same |-> TRUE], \* 261
   [text |-> <<97, 112, 112, 108, 105, 99, 97, 116, 105, 111, 110, 47, 118, 110, 100, 46, 109, 115, 45, 101, 120, 99, 101, 108, 46, 116, 101, 109, 112, 108, 97, 116, 101, 46, 109, 97, 99, 114, 111, 101, 110, 97, 98, 108, 101, 100>>,
    ext |-> "xltm", mime |-> "application/vnd.ms-excel.template.macroenabled.12", same |-> FALSE], \* 266
   [text |-> <<97, 112, 112, 108, 105, 99, 97, 116, 105, 111, 110, 47, 118, 110, 100, 46, 109, 115, 45, 112, 111, 119, 101, 114, 112, 111, 105, 110, 116, 46, 115, 108, 105, 100, 101, 115, 104, 111, 119, 46, 109, 97, 99, 114, 111, 101, 110, 97, 98, 108, 101, 100>>,
    ext |-> "ppsm", mime |-> "application/vnd.ms-powerpoint.slideshow.macroenabled.12", same |-> FALSE], \* 271
   [text |-> <<97, 112, 112, 108, 105, 99, 97, 116, 105, 111, 110, 47, 118, 110, 100, 46, 111, 112, 101, 110, 120, 109, 108, 102, 111, 114, 109, 97, 116, 115, 45, 111, 102, 102, 105, 99, 101, 100, 111, 99, 117, 109, 101, 110, 116, 46, 119, 111, 114, 100, 112, 114, 111, 99, 101, 115, 115, 105, 110, 103, 109, 108, 46, 100, 111, 99, 117, 109, 101, 110, 116>>,
    ext |-> "docx", mime |-> "application/vnd.openxmlformats-officedocument.wordprocessingml.document", same |-> TRUE], \* 276
   [text |-> <<97, 112, 112, 108, 105, 99, 97, 116, 105, 111, 110, 47, 118, 110, 100, 46, 109, 115, 45, 119, 111, 114, 100, 46, 100, 111, 99, 117, 109, 101, 110, 116, 46, 109, 97, 99, 114, 111, 101, 110, 97, 98, 108, 101, 100>>,
    ext |-> "docm", mime |-> "application/vnd.ms-word.document.macroenabled.12", same |-> FALSE], \* 281
   [text |-> <<97, 112, 112, 108, 105, 99, 97, 116, 105, 111, 110, 47, 118, 110, 100, 46, 111, 112, 101, 110, 120, 109, 108, 102, 111, 114, 109, 97, 116, 115, 45, 111, 102, 102, 105, 99, 101, 100, 111, 99, 117, 109, 101, 110, 116, 46, 119, 111, 114, 100, 112, 114, 111, 99, 101, 115, 115, 105, 110, 103, 109, 108, 46, 116, 101, 109, 112, 108, 97, 116, 101>>,
    ext |-> "dotx", mime |-> "application/vnd.openxmlformats-officedocument.wordprocessingml.template", same |-> TRUE], \* 286
   [text |-> <<97, 112, 112, 108, 105, 99, 97, 116, 105, 111, 110, 47, 118, 110, 100, 46, 109, 115, 45, 119, 111, 114, 100, 46, 116, 101, 109, 112, 108, 97, 116, 101, 46, 109, 97, 99, 114, 111, 101, 110, 97, 98, 108, 101, 100, 116, 101, 109, 112, 108, 97, 116, 101>>,
    ext |-> "dotm", mime |-> "application/vnd.ms-word.template.macroenabled.12", same |-> FALSE], \* 291
   [text |-> <<97, 112, 112, 108, 105, 99, 97, 116, 105, 111, 110, 47, 118, 110, 100, 46, 111, 112, 101, 110, 120, 109, 108, 102, 111, 114, 109, 97, 116, 115, 45, 111, 102, 102, 105, 99, 101, 100, 111, 99, 117, 109, 101, 110, 116, 46, 112, 114, 101, 115, 101, 110, 116, 97, 116, 105, 111, 110, 109, 108, 46, 116, 101, 109, 112, 108, 97, 116, 101>>,
    ext |-> "potx", mime |-> "application/vnd.openxmlformats-officedocument.presentationml.template", same |-> TRUE], \* 296
   [text |-> <<97, 112, 112, 108, 105, 99, 97, 116, 105, 111, 110, 47, 118, 110, 100, 46, 109, 115, 45, 112, 111, 119, 101, 114, 112, 111, 105, 110, 116, 46, 116, 101, 109, 112, 108, 97, 116, 101, 46, 109, 97, 99, 114, 111, 101, 110, 97, 98, 108, 101, 100>>,
    ext |-> "potm", mime |-> "application/vnd.ms-powerpoint.template.macroenabled.12", same |-> FALSE], \* 301
   [text |-> <<97, 112, 112, 108, 105, 99, 97, 116, 105, 111, 110, 47, 118, 110, 100, 46, 111, 112, 101, 110, 120, 109, 108, 102, 111, 114, 109, 97, 116, 115, 45, 111, 102, 102, 105, 99, 101, 100, 111, 99, 117, 109, 101, 110, 116, 46, 112, 114, 101, 115, 101, 110, 116, 97, 116, 105, 111, 110, 109, 108, 46, 112, 114, 101, 115, 101, 110, 116, 97, 116, 105, 111, 110>>,
    ext |-> "pptx", mime |-> "application/vnd.openxmlformats-officedocument.presentationml.presentation", same |-> TRUE], \* 306
   [text |-> <<97, 112, 112, 108, 105, 99, 97, 116, 105, 111, 110, 47, 118, 110, 100, 46, 109, 115, 45, 112, 111, 119, 101, 114, 112, 111, 105, 110, 116, 46, 112, 114, 101, 115, 101, 110, 116, 97, 116, 105, 111, 110, 46, 109, 97, 99, 114, 111, 101, 110, 97, 98, 108, 101, 100>>,
    ext |-> "pptm", mime |-> "application/vnd.ms-powerpoint.presentation.macroenabled.12", same |-> FALSE], \* 311
   [text |-> <<97, 112, 112, 108, 105, 99, 97, 116, 105, 111, 110, 47, 118, 110, 100, 46, 109, 115, 45, 118, 105, 115, 105, 111, 46, 100, 114, 97, 119, 105, 110, 103>>,
    ext |-> "vsdx", mime |-> "application/vnd.visio", same |-> FALSE], \* 316
   [text |-> <<97, 112, 112, 108, 105, 99, 97, 116, 105, 111, 110, 47, 118, 110, 100, 46, 109, 115, 45, 112, 97, 99, 107, 97, 103, 101, 46, 51, 100, 109, 97, 110, 117, 102, 97, 99, 116, 117, 114, 105, 110, 103, 45, 51, 100, 109, 111, 100, 101, 108, 43, 120, 109, 108>>,
    ext |-> "3mf", mime |-> "model/3mf", same |-> FALSE]} \* 321

getFileTypeFromMimeType(mimeType) ==
  LET known == {row \in MimeTypeTable : row.text = toLowerCase(mimeType)}
  IN  IF known = {} THEN undefined
      ELSE LET row == CHOOSE r \in known : TRUE IN FT(row.ext, row.mime)

\* /classes\d*\.dex/.test(filename)
classesDex(filename) ==
  \E i \in 1..Len(filename), k \in 0..Len(filename) :
    /\ slice(filename, i - 1, i + 6) = <<99, 108, 97, 115, 115, 101, 115>>
    /\ \A j \in (i + 7)..(i + 6 + k) : j <= Len(filename) /\ filename[j] >= 48 /\ filename[j] <= 57
    /\ slice(filename, i + 6 + k, i + 10 + k) = <<46, 100, 101, 120>>

MozillaRsa == <<77, 69, 84, 65, 45, 73, 78, 70, 47, 109, 111, 122, 105, 108, 108, 97, 46, 114, 115, 97>>
ManifestMf == <<77, 69, 84, 65, 45, 73, 78, 70, 47, 77, 65, 78, 73, 70, 69, 83, 84, 46, 77, 70>>
MimetypeName == <<109, 105, 109, 101, 116, 121, 112, 101>>
ContentTypesXml == <<91, 67, 111, 110, 116, 101, 110, 116, 95, 84, 121, 112, 101, 115, 93, 46, 120, 109, 108>>
MainXml == <<46, 109, 97, 105, 110, 43, 120, 109, 108, 34>>
Model3mf == <<97, 112, 112, 108, 105, 99, 97, 116, 105, 111, 110, 47, 118, 110, 100, 46, 109, 115, 45, 112, 97, 99, 107, 97, 103, 101, 46, 51, 100, 109, 97, 110, 117, 102, 97, 99, 116, 117, 114, 105, 110, 103, 45, 51, 100, 109, 111, 100, 101, 108, 43, 120, 109, 108>>

\* new TextDecoder("utf-8").decode(fileData): ASCII bytes are their code units;
\* a byte outside ASCII is part of a character outside ASCII or malformed,
\* given here as U+FFFD either way (no text compared with has such a character).
utf8Decode(fileData) == [i \in DOMAIN fileData |-> IF fileData[i] < 128 THEN fileData[i] ELSE 65533]

\* The handler of the entry "mimetype".
mimetypeHandler(fileData) == getFileTypeFromMimeType(trim(utf8Decode(fileData)))

\* The handler of the entry "[Content_Types].xml".
contentTypesHandler(fileData) ==
  LET xmlContent == utf8Decode(fileData)
      endPos == indexOf(xmlContent, MainXml)
      head == slice(xmlContent, 0, Max(0, endPos))
      firstPos == lastIndexOf(head, <<34>>)
  IN  IF endPos = -1
      THEN IF includes(xmlContent, <<67, 111, 110, 116, 101, 110, 116, 84, 121, 112, 101, 61, 34>> \o Model3mf \o <<34>>)
           THEN getFileTypeFromMimeType(Model3mf) ELSE undefined
      ELSE getFileTypeFromMimeType(slice(head, Max(0, firstPos + 1), Len(head)))

\* Variant: an entry that is given a handler does not stop the walk.
zipDecisionHandlersGoOn(filename) ==
  IF filename = MozillaRsa
  THEN [handler |-> "", stop |-> TRUE, ft |-> FT("xpi", "application/x-xpinstall")]
  ELSE IF filename = ManifestMf
  THEN [handler |-> "", stop |-> TRUE, ft |-> FT("jar", "application/java-archive")]
  ELSE IF filename = MimetypeName
  THEN [handler |-> "mimetype", stop |-> FALSE, ft |-> undefined]
  ELSE IF filename = ContentTypesXml
  THEN [handler |-> "contentTypes", stop |-> FALSE, ft |-> undefined]
  ELSE IF classesDex(filename)
  THEN [handler |-> "", stop |-> TRUE, ft |-> FT("apk", "application/vnd.android.package-archive")]
  ELSE [handler |-> "", stop |-> FALSE, ft |-> undefined]

\* The decision the callback returns for an entry: what the entry makes the
\* file type (settled by the name, or by a handler from the entry's data) and
\* whether the walk stops.
zipDecision(filename) ==
  IF filename = MozillaRsa
  THEN [handler |-> "", stop |-> TRUE, ft |-> FT("xpi", "application/x-xpinstall")]
  ELSE IF filename = ManifestMf
  THEN [handler |-> "", stop |-> TRUE, ft |-> FT("jar", "application/java-archive")]
  ELSE IF filename = MimetypeName
  THEN [handler |-> "mimetype", stop |-> TRUE, ft |-> undefined]
  ELSE IF filename = ContentTypesXml
  THEN [handler |-> "contentTypes", stop |-> TRUE, ft |-> undefined]
  ELSE IF classesDex(filename)
  THEN [handler |-> "", stop |-> TRUE, ft |-> FT("apk", "application/vnd.android.package-archive")]
  ELSE [handler |-> "", stop |-> FALSE, ft |-> undefined]

\* Variant: the walk goes on after a special entry, the last one deciding.
zipStopNever(decision) == FALSE

\* Whether the walk stops after the entry.
zipStop(decision) == decision.stop

\* fileType ?? {ext: "zip", mime: "application/zip"}
zipResult(fileType) == IF fileType = undefined THEN FT("zip", "application/zip") ELSE fileType

\* Little-endian integers of a ZIP header.
UINT16_LE(b, offset) == b[offset + 1] + b[offset + 2] * 256
UINT32_LE(b, offset) ==
  b[offset + 1] + b[offset + 2] * 256 + b[offset + 3] * 65536 + (b[offset + 4] % 128) * 16777216

LocalFileHeader == <<80, 75, 3, 4>>
CentralFileHeader == <<80, 75, 1, 2>>

\* The first of the operations that failed ("" when none did).
FirstError(rs) ==
  IF \A i \in DOMAIN rs : rs[i].error = "" THEN ""
  ELSE rs[CHOOSE i \in DOMAIN rs : rs[i].error # "" /\ \A j \in 1..(i - 1) : rs[j].error = ""].error

\* The unzip collaborator, one entry per step: the local file header and the
\* name are read, the callback decides, the extra field is skipped, the data
\* is read for a handler and skipped otherwise (entries are stored, not
\* deflated).  The walk ends at the central directory, or when the callback
\* says stop; then: return fileType ?? zip.
zipWalk(d) ==
  /\ pc[d] = "zip"
  /\ LET t == tokenizer[d]
         sig == peekBuffer(t, 4, FALSE, signal)
         header == readBuffer(t, 30, FALSE, signal)
         h == header.bytes \o Zeros(30 - Len(header.bytes))
         filename == readBuffer(header.tokenizer, UINT16_LE(h, 26), FALSE, signal)
         next == zipDecision(filename.bytes)
         extra == ignore(filename.tokenizer, UINT16_LE(h, 28), signal)
         data == IF next.handler # ""
                 THEN readBuffer(extra.tokenizer, UINT32_LE(h, 18), FALSE, signal)
                 ELSE ignore(extra.tokenizer, UINT32_LE(h, 18), signal)
         error == FirstError(<<header, filename, extra, data>>)
         fileType == IF next.handler = "mimetype" THEN mimetypeHandler(data.bytes)
                     ELSE IF next.handler = "contentTypes" THEN contentTypesHandler(data.bytes)
                     ELSE next.ft
     IN  IF sig.error # ""
         THEN /\ Throws(d, sig.error)
              /\ UNCHANGED tokenizer
         ELSE IF sig.bytes = CentralFileHeader
         THEN /\ Returns(d, zipResult(undefined))
              /\ UNCHANGED tokenizer
         ELSE IF sig.bytes # LocalFileHeader
         THEN /\ Throws(d, "Error")
              /\ UNCHANGED tokenizer
         ELSE IF error # ""
         THEN /\ Throws(d, error)
              /\ UNCHANGED tokenizer
         ELSE IF zipStop(next)
         THEN /\ Returns(d, zipResult(fileType))
              /\ tokenizer' = [tokenizer EXCEPT ![d] = data.tokenizer]
         ELSE /\ tokenizer' = [tokenizer EXCEPT ![d] = data.tokenizer]
              /\ UNCHANGED <<pc, ret>>
  /\ UNCHANGED <<cfg, inflated, input, buffer, thisTokenizer, signal, frames, outcome, log, stream>>

\* ---- 1F 8B 08 : gzip
\* The inflater, for a gzip member without optional header fields whose
\* deflate stream is made of stored blocks: what it yields, and the error its
\* stream ends in when the member is cut short or malformed ("" when none).
RECURSIVE inflateBlocks(_, _)
inflateBlocks(bytes, pos) ==
  IF pos + 5 > Len(bytes) THEN [data |-> <<>>, error |-> "TypeError"]
  ELSE LET final == bytes[pos + 1]
           length == UINT16_LE(bytes, pos + 1)
           end == pos + 5 + length
       IN  IF final \notin {0, 1} \/ UINT16_LE(bytes, pos + 3) # 65535 - length
           THEN [data |-> <<>>, error |-> "TypeError"]
           ELSE IF end > Len(bytes)
           THEN [data |-> slice(bytes, pos + 5, end), error |-> "TypeError"]
           ELSE IF final = 1
           THEN [data |-> slice(bytes, pos + 5, end),
                 error |-> IF end + 8 > Len(bytes) THEN "TypeError" ELSE ""]
           ELSE LET rest == inflateBlocks(bytes, end)
                IN  [data |-> slice(bytes, pos + 5, end) \o rest.data, error |-> rest.error]

inflate(bytes) ==
  IF Len(bytes) < 10 \/ bytes[4] # 0 THEN [data |-> <<>>, error |-> "TypeError"]
  ELSE inflateBlocks(bytes, 10)

\* fromStream(stream): the tokenizer over the inflated stream.
InflatedTokenizer(t) ==
  LET result == inflate(slice(t.data, t.position, Len(t.data)))
  IN  [StreamTokenizer(result.data) EXCEPT !.fault = result.error]

\* Variant: whatever the inflated stream is detected as, the result is gz.
gzipTypeAlwaysGz(compressedFileType) == FT("gz", "application/gzip")

\* if (compressedFileType && compressedFileType.ext === "tar") tar.gz, else gz
gzipType(compressedFileType) ==
  IF compressedFileType # undefined /\ compressedFileType.ext = "tar"
  THEN FT("tar.gz", "application/gzip")
  ELSE FT("gz", "application/gzip")

\* gzipHandler.inflate(); await this.fromStream(stream): the whole pipeline is
\* run, on this parser, over a new tokenizer on the inflated stream.
gzip(d) ==
  /\ pc[d] = "gzip"
  /\ tokenizer' = [tokenizer EXCEPT ![d] = InflatedTokenizer(@)]
  /\ frames' = [frames EXCEPT ![d] =
                  Append(@, [index |-> 0, initialPosition |-> 0, outer |-> tokenizer[d]])]
  /\ inflated' = [inflated EXCEPT ![d] = Append(@, "open")]
  /\ pc' = [pc EXCEPT ![d] = "loop"]
  /\ UNCHANGED <<cfg, input, buffer, thisTokenizer, signal, ret, outcome, log, stream>>

\* finally { await stream.cancel() }; then tar.gz or gz is returned.
gzipReturn(d) ==
  /\ pc[d] = "gzipReturn"
  /\ inflated' = [inflated EXCEPT ![d] = cancel(@)]
  /\ Returns(d, gzipType(ret[d].ft))
  /\ UNCHANGED <<cfg, input, buffer, thisTokenizer, signal, tokenizer, frames, outcome, log, stream>>

\* ---- 1A 45 DF A3 : EBML (Matroska, WebM)
\* The number of leading zero bits of the first byte of a field (ic).
LeadingZeros(msb) ==
  IF msb >= 128 THEN 0 ELSE IF msb >= 64 THEN 1 ELSE IF msb >= 32 THEN 2
  ELSE IF msb >= 16 THEN 3 ELSE IF msb >= 8 THEN 4 ELSE IF msb >= 4 THEN 5
  ELSE IF msb >= 2 THEN 6 ELSE IF msb >= 1 THEN 7 ELSE 8

\* readField: peek the first byte, then read ic + 1 bytes.
readField(t, aborted) ==
  LET p == peekBuffer(t, 1, FALSE, aborted)
  IN  IF p.error # "" THEN p
      ELSE readBuffer(t, LeadingZeros(p.bytes[1]) + 1, FALSE, aborted)

\* getUintBE of uint8array-extras: a view of 1 to 6 bytes, most significant
\* byte first; nothing for a longer view.
RECURSIVE UintBE(_)
UintBE(bytes) ==
  IF bytes = <<>> THEN 0
  ELSE UintBE(SubSeq(bytes, 1, Len(bytes) - 1)) * 256 + bytes[Len(bytes)]

getUintBE(view) == IF Len(view) \in 1..6 THEN UintBE(view) ELSE Undefined

Shr(x, n) == x \div (2 ^ n)

\* lengthField[0] ^= 0x80 >> (lengthField.length - 1): the marker bit, which
\* is set in the first byte of a field of up to 8 bytes, is cleared.
ClearMarker(lengthField) ==
  IF Len(lengthField) > 8 THEN lengthField
  ELSE [lengthField EXCEPT ![1] = @ - Shr(128, Len(lengthField) - 1)]

\* Variant: an element whose fields cannot be read is an empty element.
readElementOrNothing(t, aborted) ==
  LET idField == readField(t, aborted)
      lengthField == readField(idField.tokenizer, aborted)
      cleared == ClearMarker(lengthField.bytes)
      nrLength == Min(6, Len(cleared))
  IN  IF idField.error # "" \/ lengthField.error # ""
      THEN [error |-> "", tokenizer |-> t, id |-> 0, len |-> 0]
      ELSE [error |-> "", tokenizer |-> lengthField.tokenizer,
            id |-> getUintBE(idField.bytes),
            len |-> getUintBE(SubSeq(cleared, Len(cleared) - nrLength + 1, Len(cleared)))]

\* readElement: an id field and a length field (its last 6 bytes at most).
readElement(t, aborted) ==
  LET element(idField, lengthField) ==
        LET cleared == ClearMarker(lengthField.bytes)
            nrLength == Min(6, Len(cleared))
        IN  IF idField.error # ""
            THEN [error |-> idField.error, tokenizer |-> idField.tokenizer, id |-> 0, len |-> 0]
            ELSE IF lengthField.error # ""
            THEN [error |-> lengthField.error, tokenizer |-> lengthField.tokenizer,
                  id |-> 0, len |-> 0]
            ELSE [error |-> "", tokenizer |-> lengthField.tokenizer,
                  id |-> getUintBE(idField.bytes),
                  len |-> getUintBE(SubSeq(cleared, Len(cleared) - nrLength + 1, Len(cleared)))]
      fields(idField) == element(idField, readField(idField.tokenizer, aborted))
  IN  fields(readField(t, aborted))

DocTypeId == 17026

\* rawValue.replaceAll(/\x00.*$/g, ""): cut at the first NUL that no line
\* terminator follows.
LineTerminators == {10, 13, 8232, 8233}
stripNul(rawValue) ==
  LET cuts == {i \in DOMAIN rawValue :
                 /\ rawValue[i] = 0
                 /\ \A j \in (i + 1)..Len(rawValue) : rawValue[j] \notin LineTerminators}
  IN  IF cuts = {} THEN rawValue
      ELSE SubSeq(rawValue, 1, (CHOOSE i \in cuts : \A j \in cuts : i <= j) - 1)

\* Variant: the DocType is read with whatever bytes are left.
readDocTypeMayBeLess(t, len, aborted) == readBuffer(t, len, TRUE, aborted)

\* tokenizer.readToken(new Token.StringType(element.len, "utf8"))
readDocType(t, len, aborted) == readBuffer(t, len, FALSE, aborted)

NoDocType == [defined |-> FALSE, value |-> <<>>]
DocType(value) == [defined |-> TRUE, value |-> value]

\* readChildren: the first DocType element among the next `children` elements.
RECURSIVE readChildren(_, _, _)
readChildren(t, children, aborted) ==
  IF ~(children > 0) THEN [error |-> "", tokenizer |-> t, documentType |-> NoDocType]
  ELSE LET child(element, raw, skipped) ==
             IF element.error # ""
             THEN [error |-> element.error, tokenizer |-> element.tokenizer,
                   documentType |-> NoDocType]
             ELSE IF element.id = DocTypeId
             THEN [error |-> raw.error, tokenizer |-> raw.tokenizer,
                   documentType |-> IF raw.error = ""
                                    THEN DocType(stripNul(utf8Decode(raw.bytes)))
                                    ELSE NoDocType]
             ELSE IF skipped.error # ""
             THEN [error |-> skipped.error, tokenizer |-> skipped.tokenizer,
                   documentType |-> NoDocType]
             ELSE readChildren(skipped.tokenizer, children - 1, aborted)
           read(element) == child(element,
                                  readDocType(element.tokenizer, element.len, aborted),
                                  ignore(element.tokenizer, element.len, aborted))
       IN  read(readElement(t, aborted))

Webm == <<119, 101, 98, 109>>
Matroska == <<109, 97, 116, 114, 111, 115, 107, 97>>

\* switch (documentType)
ebmlType(documentType) ==
  IF documentType = DocType(Webm) THEN FT("webm", "video/webm")
  ELSE IF documentType = DocType(Matroska) THEN FT("mkv", "video/matroska")
  ELSE undefined

\* const re = await readElement(); const documentType = await readChildren(re.len)
ebml(d) ==
  /\ pc[d] = "ebml"
  /\ LET decide(re, c) ==
           IF re.error # ""
           THEN /\ Throws(d, re.error)
                /\ tokenizer' = [tokenizer EXCEPT ![d] = re.tokenizer]
           ELSE IF c.error # ""
           THEN /\ Throws(d, c.error)
                /\ tokenizer' = [tokenizer EXCEPT ![d] = c.tokenizer]
           ELSE /\ Returns(d, ebmlType(c.documentType))
                /\ tokenizer' = [tokenizer EXCEPT ![d] = c.tokenizer]
         children(re) == decide(re, readChildren(re.tokenizer, re.len, signal))
     IN  children(readElement(tokenizer[d], signal))
  /\ UNCHANGED <<cfg, inflated, input, buffer, thisTokenizer, signal, frames, outcome, log, stream>>

\* ---- 00 00 00 0C 6A 50 20 20 0D 0A 87 0A : JPEG 2000 family
\* Token.StringType(4, "ascii"): ASCII bytes are their code units; any other
\* byte decodes to a character outside ASCII (none of the brands has one).
asciiDecode(bytes) == [i \in DOMAIN bytes |-> IF bytes[i] < 128 THEN bytes[i] ELSE bytes[i] + 65536]

Jp2Brands ==
  {<<<<106, 112, 50, 32>>, "jp2", "image/jp2">>,
   <<<<106, 112, 120, 32>>, "jpx", "image/jpx">>,
   <<<<106, 112, 109, 32>>, "jpm", "image/jpm">>,
   <<<<109, 106, 112, 50>>, "mj2", "image/mj2">>}

\* switch (type)
jp2Type(type) ==
  IF \E row \in Jp2Brands : row[1] = type
  THEN LET row == CHOOSE row \in Jp2Brands : row[1] = type IN FT(row[2], row[3])
  ELSE undefined

\* await tokenizer.ignore(20); readToken(new Token.StringType(4, "ascii"))
jp2(d) ==
  /\ pc[d] = "jp2"
  /\ LET s == ignore(tokenizer[d], 20, signal)
         r == readBuffer(s.tokenizer, 4, FALSE, signal)
     IN  IF s.error # ""
         THEN /\ Throws(d, s.error)
              /\ UNCHANGED tokenizer
         ELSE IF r.error # ""
         THEN /\ Throws(d, r.error)
              /\ tokenizer' = [tokenizer EXCEPT ![d] = s.tokenizer]
         ELSE /\ Returns(d, jp2Type(asciiDecode(r.bytes)))
              /\ tokenizer' = [tokenizer EXCEPT ![d] = r.tokenizer]
  /\ UNCHANGED <<cfg, inflated, input, buffer, thisTokenizer, signal, frames, outcome, log, stream>>

\* ---- 30 26 B2 75 8E 66 CF 11 A6 D9 : ASF
\* Number(Token.UINT64_LE): exact up to 2^24 - 1; a larger number, which is
\* larger than any source here, is held as MAX_SAFE_INTEGER.
RECURSIVE UintLE(_)
UintLE(bytes) == IF bytes = <<>> THEN 0 ELSE bytes[1] + 256 * UintLE(Tail(bytes))

UINT64_LE(bytes) ==
  IF \E i \in 4..8 : bytes[i] # 0 THEN MAX_SAFE_INTEGER ELSE UintLE(SubSeq(bytes, 1, 3))

Guid(bytes) == [len |-> 16, bytes |-> bytes]
StreamPropertiesObject == <<145, 7, 220, 183, 183, 169, 207, 17, 142, 230, 0, 192, 12, 32, 83, 101>>
AsfAudio == <<64, 158, 105, 248, 77, 91, 207, 17, 168, 253, 0, 128, 95, 92, 68, 43>>
AsfVideo == <<192, 239, 25, 188, 77, 91, 207, 17, 168, 253, 0, 128, 95, 92, 68, 43>>

\* await tokenizer.ignore(30)
asf(d) ==
  /\ pc[d] = "asf"
  /\ Awaited(d, ignore(tokenizer[d], 30, signal), "asfWalk")
  /\ UNCHANGED <<cfg, inflated, input, buffer, thisTokenizer, signal, frames, outcome, log, stream>>

\* Variant: the payload of an object is never taken as negative.
asfPayloadClamped(size) == Max(0, size - 24)

\* let payload = header.size - 24
asfPayload(size) == size - 24

\* What the type of a Stream-Properties-Object gives; generic after the break.
asfStreamType(typeId) ==
  IF _check(Guid(typeId), AsfAudio, NoOpt) THEN FT("asf", "audio/x-ms-asf")
  ELSE IF _check(Guid(typeId), AsfVideo, NoOpt) THEN FT("asf", "video/x-ms-asf")
  ELSE FT("asf", "application/vnd.ms-asf")

\* while (tokenizer.position + 24 < tokenizer.fileInfo.size) { readHeader();
\* Stream-Properties-Object: dispatch on its type; else the payload is skipped }
asfWalk(d) ==
  /\ pc[d] = "asfWalk"
  /\ LET t == tokenizer[d]
         guid == readBuffer(t, 16, FALSE, signal)
         size == readBuffer(guid.tokenizer, 8, FALSE, signal)
         typeId == readBuffer(size.tokenizer, 16, FALSE, signal)
     IN  IF ~(t.position + 24 < t.size)
         THEN /\ Returns(d, FT("asf", "application/vnd.ms-asf"))
              /\ UNCHANGED tokenizer
         ELSE IF guid.error # ""
         THEN /\ Throws(d, guid.error)
              /\ UNCHANGED tokenizer
         ELSE IF size.error # ""
         THEN /\ Throws(d, size.error)
              /\ tokenizer' = [tokenizer EXCEPT ![d] = guid.tokenizer]
         ELSE IF _check(Guid(guid.bytes), StreamPropertiesObject, NoOpt)
         THEN IF typeId.error # ""
              THEN /\ Throws(d, typeId.error)
                   /\ tokenizer' = [tokenizer EXCEPT ![d] = size.tokenizer]
              ELSE /\ Returns(d, asfStreamType(typeId.bytes))
                   /\ tokenizer' = [tokenizer EXCEPT ![d] = typeId.tokenizer]
         ELSE /\ tokenizer' = [tokenizer EXCEPT ![d] = size.tokenizer]
              /\ pc' = [pc EXCEPT ![d] = "asfSkip"]
              /\ UNCHANGED ret
  /\ UNCHANGED <<cfg, inflated, input, buffer, thisTokenizer, signal, frames, outcome, log, stream>>

\* await tokenizer.ignore(payload), payload being the size just read less 24.
asfSkip(d) ==
  /\ pc[d] = "asfSkip"
  /\ LET t == tokenizer[d]
         size == UINT64_LE(SubSeq(t.data, t.position - 7, t.position))
     IN  Awaited(d, ignore(t, asfPayload(size), signal), "asfWalk")
  /\ UNCHANGED <<cfg, inflated, input, buffer, thisTokenizer, signal, frames, outcome, log, stream>>

\* ---- !<arch> : ar, deb
DebianBinary == <<100, 101, 98, 105, 97, 110, 45, 98, 105, 110, 97, 114, 121>>

arType(string) ==
  IF string = DebianBinary THEN FT("deb", "application/x-deb")
  ELSE FT("ar", "application/x-unix-archive")

\* await tokenizer.ignore(8); readToken(new Token.StringType(13, "ascii"))
ar(d) ==
  /\ pc[d] = "ar"
  /\ LET s == ignore(tokenizer[d], 8, signal)
         r == readBuffer(s.tokenizer, 13, FALSE, signal)
     IN  IF s.error # ""
         THEN /\ Throws(d, s.error)
              /\ UNCHANGED tokenizer
         ELSE IF r.error # ""
         THEN /\ Throws(d, r.error)
              /\ tokenizer' = [tokenizer EXCEPT ![d] = s.tokenizer]
         ELSE /\ Returns(d, arType(asciiDecode(r.bytes)))
              /\ tokenizer' = [tokenizer EXCEPT ![d] = r.tokenizer]
  /\ UNCHANGED <<cfg, inflated, input, buffer, thisTokenizer, signal, frames, outcome, log, stream>>

\* ---- II / MM : TIFF
\* Token.UINT16_LE / UINT16_BE and UINT32_LE / UINT32_BE .get(this.buffer, offset)
UINT16(b, offset, bigEndian) ==
  IF bigEndian THEN At(b, offset) * 256 + At(b, offset + 1)
  ELSE At(b, offset) + At(b, offset + 1) * 256

UINT32(b, offset, bigEndian) ==
  IF bigEndian
  THEN At(b, offset) * 16777216 + At(b, offset + 1) * 65536 + At(b, offset + 2) * 256 + At(b, offset + 3)
  ELSE At(b, offset) + At(b, offset + 1) * 256 + At(b, offset + 2) * 65536 + At(b, offset + 3) * 16777216

\* switch (tagId)
tiffTagType(tagId) ==
  IF tagId = 50341 THEN FT("arw", "image/x-sony-arw")
  ELSE IF tagId = 50706 THEN FT("dng", "image/x-adobe-dng")
  ELSE undefined

\* readTiffTag: the tag id is read, 10 bytes are skipped.
readTiffTag(t, bigEndian, aborted) ==
  LET tagId == readBuffer(t, 2, FALSE, aborted)
      skipped == ignore(tagId.tokenizer, 10, aborted)
  IN  IF tagId.error # "" THEN [error |-> tagId.error, tokenizer |-> tagId.tokenizer, ft |-> undefined]
      ELSE IF skipped.error # ""
      THEN [error |-> skipped.error, tokenizer |-> skipped.tokenizer, ft |-> undefined]
      ELSE [error |-> "", tokenizer |-> skipped.tokenizer,
            ft |-> tiffTagType(UINT16(Guid(tagId.bytes), 0, bigEndian))]

\* for (let n = 0; n < numberOfTags; ++n) { readTiffTag ... }
RECURSIVE readTiffTags(_, _, _, _)
readTiffTags(t, tags, bigEndian, aborted) ==
  IF tags = 0 THEN [error |-> "", tokenizer |-> t, ft |-> undefined]
  ELSE LET tag == readTiffTag(t, bigEndian, aborted)
       IN  IF tag.error # "" \/ tag.ft # undefined THEN tag
           ELSE readTiffTags(tag.tokenizer, tags - 1, bigEndian, aborted)

\* readTiffIFD: the number of tags, then the tags.
readTiffIFD(t, bigEndian, aborted) ==
  LET numberOfTags == readBuffer(t, 2, FALSE, aborted)
  IN  IF numberOfTags.error # ""
      THEN [error |-> numberOfTags.error, tokenizer |-> numberOfTags.tokenizer, ft |-> undefined]
      ELSE readTiffTags(numberOfTags.tokenizer, UINT16(Guid(numberOfTags.bytes), 0, bigEndian),
                        bigEndian, aborted)

\* readTiffHeader on the sample: the type it tells without reading, "ifd"
\* when the IFD has to be read, undefined when the version is not TIFF's.
tiffHeader(b, bigEndian) ==
  LET version == UINT16(b, 2, bigEndian)
      ifdOffset == UINT32(b, 4, bigEndian)
      someId1 == UINT16(b, 8, bigEndian)
      someId2 == UINT16(b, 10, bigEndian)
  IN  IF version = 42
      THEN IF ifdOffset >= 6 /\ checkString(b, <<67, 82>>, Off(8), "ascii")
           THEN Return(FT("cr2", "image/x-canon-cr2"))
           ELSE IF ifdOffset >= 8 /\ ((someId1 = 28 /\ someId2 = 254) \/ (someId1 = 31 /\ someId2 = 11))
           THEN Return(FT("nef", "image/x-nikon-nef"))
           ELSE Probe("ifd")
      ELSE IF version = 43 THEN Return(FT("tif", "image/tiff"))
      ELSE FallThrough

\* const fileType = await this.readTiffHeader(bigEndian); if (fileType) return
\* fileType; otherwise the battery goes on.  The reads are made on
\* this.tokenizer.
readTiffHeader(d, bigEndian, next) ==
  LET b == buffer[parser[d]]
      o == thisTokenizer[parser[d]]
      header == tiffHeader(b, bigEndian)
      skipped == ignore(tokenizer[o], UINT32(b, 4, bigEndian), signal)
      ifd == readTiffIFD(skipped.tokenizer, bigEndian, signal)
  IN  IF header.kind = "return"
      THEN /\ Returns(d, header.ft)
           /\ UNCHANGED tokenizer
      ELSE IF header.kind = "next"
      THEN /\ pc' = [pc EXCEPT ![d] = next]
           /\ UNCHANGED <<tokenizer, ret>>
      ELSE IF skipped.error # ""
      THEN /\ Throws(d, skipped.error)
           /\ UNCHANGED tokenizer
      ELSE IF ifd.error # ""
      THEN /\ Throws(d, ifd.error)
           /\ tokenizer' = [tokenizer EXCEPT ![o] = ifd.tokenizer]
      ELSE /\ Returns(d, IF ifd.ft # undefined THEN ifd.ft ELSE FT("tif", "image/tiff"))
           /\ tokenizer' = [tokenizer EXCEPT ![o] = ifd.tokenizer]

tiffLE(d) ==
  /\ pc[d] = "tiffLE"
  /\ readTiffHeader(d, FALSE, "afterTiffLE")
  /\ UNCHANGED <<cfg, inflated, input, buffer, thisTokenizer, signal, frames, outcome, log, stream>>

tiffBE(d) ==
  /\ pc[d] = "tiffBE"
  /\ readTiffHeader(d, TRUE, "afterTiffBE")
  /\ UNCHANGED <<cfg, inflated, input, buffer, thisTokenizer, signal, frames, outcome, log, stream>>

\* The battery after a TIFF test that told nothing.
afterTiffLE(d) ==
  /\ pc[d] = "afterTiffLE"
  /\ Stage(d, SignaturesAfterTiffLE(buffer[parser[d]]), 256, "signatures256")
  /\ UNCHANGED <<cfg, inflated, input, thisTokenizer, signal, tokenizer, frames, outcome, log, stream>>

afterTiffBE(d) ==
  /\ pc[d] = "afterTiffBE"
  /\ Stage(d, SignaturesAfterTiffBE(buffer[parser[d]]), 256, "signatures256")
  /\ UNCHANGED <<cfg, inflated, input, thisTokenizer, signal, tokenizer, frames, outcome, log, stream>>

\* ------------------------------------------------------- toDetectionStream
\* Variant: every error of detection is taken for "no result".
detectionOutcomeSwallowsAll(v) == Resolved(v.ft)

\* What the call does with the way detection on the first chunk ended: the
\* file type found, undefined after an EndOfStreamError, any other error thrown on.
detectionOutcome(v) ==
  IF v.error = "" THEN Resolved(v.ft)
  ELSE IF v.error = "End-Of-Stream" THEN Resolved(undefined)
  ELSE Rejected(v.error)

\* Variant: start enqueues nothing.
startNothing(firstChunk) == <<>>

\* async start(controller) { controller.enqueue(firstChunk) }
start(firstChunk) == firstChunk

\* transform(chunk, controller) { controller.enqueue(chunk) }
transform(delivered, chunk) == delivered \o chunk

\* Web stream: reader.read(new Uint8Array(sampleSize)) on a BYOB reader.  A
\* view of length 0 is refused with a TypeError; a closed stream yields done;
\* otherwise the view comes back holding between 1 and sampleSize bytes.
toDetectionStreamWeb(d) ==
  /\ pc[d] = "toDetectionStream"
  /\ stream[d].variant = "web"
  /\ LET s == stream[d]
     IN  IF s.sampleSize = 0
         THEN /\ outcome' = [outcome EXCEPT ![d] = Rejected("TypeError")]
              /\ pc' = [pc EXCEPT ![d] = "done"]
              /\ UNCHANGED <<stream, input>>
         ELSE IF s.source = <<>>
         THEN /\ outcome' = [outcome EXCEPT ![d] = Resolved(undefined)]
              /\ stream' = [stream EXCEPT ![d] = [s EXCEPT !.delivered = start(<<>>),
                                                         !.flowing = TRUE, !.returned = TRUE]]
              /\ pc' = [pc EXCEPT ![d] = "done"]
              /\ UNCHANGED input
         ELSE \E n \in 1..Min(s.sampleSize, Len(s.source)) :
                LET chunk == SubSeq(s.source, 1, n)
                IN  /\ stream' = [stream EXCEPT ![d] = [s EXCEPT !.firstChunk = chunk,
                                                               !.taken = n]]
                    /\ input' = [input EXCEPT ![d] =
                                   Input("Uint8Array", SubSeq(chunk, 1, Min(s.sampleSize, n)))]
                    /\ pc' = [pc EXCEPT ![d] = "fromBuffer"]
                    /\ UNCHANGED outcome
  /\ UNCHANGED <<cfg, inflated, buffer, thisTokenizer, signal, tokenizer, frames, ret, log>>

\* readableStream.read(sampleSize) ?? readableStream.read() ?? new Uint8Array(0):
\* the number of bytes got when `buffered` bytes are at hand.
firstRead(sampleSize, buffered) ==
  IF sampleSize > 0 /\ buffered >= sampleSize THEN sampleSize ELSE buffered

\* Node stream, on "readable": the source is piped into the PassThrough, then
\* the first chunk is read; read() emits it as "data", so the pipe writes it
\* to the PassThrough as well.
toDetectionStreamNode(d) ==
  /\ pc[d] = "toDetectionStream"
  /\ stream[d].variant = "node"
  /\ LET s == stream[d]
     IN  \E buffered \in (IF s.source = <<>> THEN {0} ELSE 1..Len(s.source)) :
           LET chunk == SubSeq(s.source, 1, firstRead(s.sampleSize, buffered))
           IN  /\ stream' = [stream EXCEPT ![d] = [s EXCEPT !.firstChunk = chunk,
                                                          !.taken = Len(chunk),
                                                          !.delivered = chunk,
                                                          !.flowing = TRUE]]
               /\ input' = [input EXCEPT ![d] =
                              Input(IF chunk = <<>> THEN "Uint8Array" ELSE s.chunkType, chunk)]
               /\ pc' = [pc EXCEPT ![d] = "fromBuffer"]
  /\ UNCHANGED <<cfg, inflated, buffer, thisTokenizer, signal, tokenizer, frames, ret, outcome, log>>

\* Detection on the first chunk has ended: the call rejects, or returns the
\* output stream with the file type attached (web: the transform's start
\* enqueues the first chunk and the source is piped through).
streamSettle(d) ==
  /\ pc[d] = "settle"
  /\ api[d] = "toDetectionStream"
  /\ LET o == detectionOutcome(ret[d])
         s == stream[d]
     IN  /\ outcome' = [outcome EXCEPT ![d] = o]
         /\ stream' = [stream EXCEPT ![d] =
              IF o.state = "rejected" THEN s
              ELSE IF s.variant = "web"
                   THEN [s EXCEPT !.delivered = start(s.firstChunk),
                                  !.flowing = TRUE, !.returned = TRUE]
                   ELSE [s EXCEPT !.returned = TRUE]]
  /\ pc' = [pc EXCEPT ![d] = "done"]
  /\ UNCHANGED <<cfg, inflated, input, buffer, thisTokenizer, signal, tokenizer, frames, ret, log>>

\* The pipe passes the next chunk of the source on to the output.
pipeChunk(d) ==
  /\ stream[d].flowing
  /\ stream[d].taken < Len(stream[d].source)
  /\ \E n \in 1..(Len(stream[d].source) - stream[d].taken) :
       stream' = [stream EXCEPT ![d] =
                    [@ EXCEPT !.delivered = transform(@, SubSeq(stream[d].source,
                                                              stream[d].taken + 1,
                                                              stream[d].taken + n)),
                              !.taken = @ + n]]
  /\ UNCHANGED <<cfg, inflated, input, buffer, thisTokenizer, signal, tokenizer, pc, frames, ret,
                 outcome, log>>

\* ------------------------------------------------------------- the inputs
\* All sequences over S of length 0..n.
RECURSIVE Seqs(_, _)
Seqs(S, n) ==
  IF n = 0 THEN {<<>>}
  ELSE LET shorter == Seqs(S, n - 1)
       IN  shorter \cup {Append(s, x) : s \in {t \in shorter : Len(t) = n - 1}, x \in S}

Bytes(bytes) == Input("Uint8Array", bytes)

\* The custom detectors of the test suite, in every order and number.
CustomIds == {"mock.unicorn", "mock.png", "mock.dirtyTokenizer"}
CustomLists == Seqs(CustomIds, MaxCustom)

\* An ID3v2 header declaring a tag body of `length` (< 128) bytes.
ID3Tag(length) == <<73, 68, 51, 3, 0, 0, 0, 0, 0, length>>

ID3Inputs ==
  {ID3Tag(length) \o Zeros(k) \o tail :
     length \in 0..2, k \in 0..2,
     tail \in {<<>>, <<66, 77>>, UNICORN, <<255, 251>>, <<0, 0>>}}

OggPage(type) == <<79, 103, 103, 83>> \o Zeros(24) \o type

PipelineInputs ==
  {Bytes(b) : b \in ID3Inputs}
  \cup {Bytes(<<>>), Bytes(<<0>>), Bytes(<<66>>), Bytes(<<66, 77>>), Bytes(Zeros(7)), Bytes(UNICORN),
        Bytes(<<239, 187, 191, 66, 77>>), Bytes(<<239, 187, 191, 0, 0>>),
        Bytes(<<73, 68, 51>>), Bytes(<<73, 68, 51, 3, 0, 0, 0>>),
        Bytes(<<79, 103, 103, 83>>),
        Bytes(OggPage(<<79, 112, 117, 115, 72, 101, 97, 100>>)),
        Bytes(OggPage(<<1, 118, 111, 114, 98, 105, 115, 0>>)),
        Bytes(OggPage(Zeros(8))),
        Bytes(<<37, 33>>),
        Bytes(<<37, 33, 80, 83, 45, 65, 100, 111, 98, 101, 45, 51, 46, 48, 32, 69, 80, 83, 70, 45>>),
        Bytes(<<255, 251>>), Bytes(<<0, 0, 1, 0>>), Bytes(<<255, 254, 0, 0>>),
        Input("ArrayBuffer", <<>>), Input("ArrayBuffer", <<66, 77>>),
        Input("string", <<>>), Input("string", <<66, 77>>)}

\* The file sizes that border the sample sizes of the detectors.
OddSizes == (1..13) \cup (255..257) \cup (511..513)

\* Bytes around the MPEG audio frame sync: no sync, FF, FF FB (layer 3),
\* FF F1 (ADTS), FF E0 (sync, no layer).
MpegAlphabet == {0, 255, 251, 241, 224}
MpegInputs == {b \in Seqs(MpegAlphabet, MaxMpegLen) : Len(b) >= 2}

\* The stream that follows the ID3 tag an input starts with (when the tag lies
\* within the input).
HasID3Body(bytes) ==
  /\ Len(bytes) >= 10
  /\ SubSeq(bytes, 1, 3) = <<73, 68, 51>>
  /\ 10 + uint32SyncSafeToken([len |-> Len(bytes), bytes |-> bytes], 6) <= Len(bytes)

\* The stream that follows the UTF-8 byte order mark an input starts with.
Utf8Bom == <<239, 187, 191>>
HasBom(bytes) == Len(bytes) >= 3 /\ SubSeq(bytes, 1, 3) = Utf8Bom
AfterBom(bytes) == SubSeq(bytes, 4, Len(bytes))

AfterID3(bytes) ==
  SubSeq(bytes, 11 + uint32SyncSafeToken([len |-> Len(bytes), bytes |-> bytes], 6), Len(bytes))

\* PNG inputs: the signature, then up to MaxChunks of: an IHDR chunk, an acTL
\* chunk, an IDAT chunk, a chunk with a negative length, an IDAT chunk with a
\* negative length (each with data and CRC), and the bare 8-byte headers of
\* an acTL chunk and of a chunk with a negative length.
PngSignature == <<137, 80, 78, 71, 13, 10, 26, 10>>
PngChunk(length, type, data) == length \o type \o data \o Zeros(4)
PngPieces ==
  {PngChunk(<<0, 0, 0, 1>>, <<73, 72, 68, 82>>, <<0>>),
   PngChunk(<<0, 0, 0, 0>>, acTL, <<>>),
   PngChunk(<<0, 0, 0, 0>>, IDAT, <<>>),
   PngChunk(<<255, 255, 255, 255>>, <<73, 72, 68, 82>>, <<>>),
   PngChunk(<<128, 0, 0, 0>>, IDAT, <<>>),
   <<0, 0, 0, 0>> \o acTL,
   <<255, 255, 255, 255>> \o <<116, 69, 88, 116>>}

RECURSIVE Flatten(_)
Flatten(ss) == IF ss = <<>> THEN <<>> ELSE Head(ss) \o Flatten(Tail(ss))

PngInputs == {PngSignature \o Flatten(chunks) : chunks \in Seqs(PngPieces, MaxChunks)}

\* ZIP inputs: up to MaxEntries stored entries, then the central directory
\* (or the end of the input, for a truncated archive).
UInt16LE(n) == <<n % 256, n \div 256>>
ZipEntry(filename, data) ==
  LocalFileHeader \o Zeros(14) \o UInt16LE(Len(data)) \o <<0, 0>> \o UInt16LE(Len(data)) \o <<0, 0>>
    \o UInt16LE(Len(filename)) \o <<0, 0>> \o filename \o data
EpubMime == <<65, 112, 112, 108, 105, 99, 97, 116, 105, 111, 110, 47, 69, 80, 85, 66, 43, 122, 105, 112>>
ZipEntries ==
  {ZipEntry(ManifestMf, <<>>), ZipEntry(MozillaRsa, <<>>),
   ZipEntry(<<99, 108, 97, 115, 115, 101, 115, 46, 100, 101, 120>>, <<0>>), ZipEntry(<<108, 105, 98, 47, 99, 108, 97, 115, 115, 101, 115, 49, 50, 46, 100, 101, 120, 46, 98, 97, 107>>, <<>>),
   ZipEntry(<<97, 46, 116, 120, 116>>, <<0, 0>>),
   ZipEntry(MimetypeName, EpubMime), ZipEntry(MimetypeName, toLowerCase(EpubMime) \o <<10>>),
   ZipEntry(MimetypeName, <<116, 101, 120, 116, 47, 112, 108, 97, 105, 110>>),
   ZipEntry(ContentTypesXml, <<60, 84, 121, 112, 101, 115, 47, 62>>),
   ZipEntry(ContentTypesXml, <<60, 79, 118, 101, 114, 114, 105, 100, 101, 32, 80, 97, 114, 116, 78, 97, 109, 101, 61, 34, 47, 119, 111, 114, 100, 47, 100, 111, 99, 117, 109, 101, 110, 116, 46, 120, 109, 108, 34, 32, 67, 111, 110, 116, 101, 110, 116, 84, 121, 112, 101, 61, 34, 97, 112, 112, 108, 105, 99, 97, 116, 105, 111, 110, 47, 118, 110, 100, 46, 111, 112, 101, 110, 120, 109, 108, 102, 111, 114, 109, 97, 116, 115, 45, 111, 102, 102, 105, 99, 101, 100, 111, 99, 117, 109, 101, 110, 116, 46, 119, 111, 114, 100, 112, 114, 111, 99, 101, 115, 115, 105, 110, 103, 109, 108, 46, 100, 111, 99, 117, 109, 101, 110, 116, 46, 109, 97, 105, 110, 43, 120, 109, 108, 34, 47, 62>>)}
ZipInputs ==
  {Flatten(entries) \o end : entries \in Seqs(ZipEntries, MaxEntries) \ {<<>>},
                             end \in {CentralFileHeader, <<>>}}

\* ISO base media inputs: a box of type ftyp whose major brand is a name padded
\* to 4 bytes with spaces, with NUL bytes, or with both.
FtypNames ==
  {<<104, 101, 105, 99>>,
   <<104, 101, 105, 120>>,
   <<113, 116>>,
   <<77, 52, 65>>,
   <<77, 52, 86>>,
   <<51, 103, 50, 97>>,
   <<51, 103, 50>>,
   <<51, 103, 112, 53>>,
   <<51, 103>>,
   <<105, 115, 111, 109>>,
   <<109, 112, 52, 50>>,
   <<97, 118, 105, 102>>,
   <<109, 105, 102, 49>>,
   <<99, 114, 120>>,
   <<70, 52, 86>>,
   <<97>>}
Pad(name, c) == name \o [i \in 1..(4 - Len(name)) |-> c]
FtypBrandFields ==
  {Pad(name, c) : name \in FtypNames, c \in {0, 32}}
  \cup {<<113, 116>> \o <<0, 32>>, <<113, 116>> \o <<32, 0>>}
FtypInputs == {<<0, 0, 0, 20>> \o <<102, 116, 121, 112>> \o brand \o Zeros(8) : brand \in FtypBrandFields}

\* gzip members: a 10-byte header without optional fields, the payload in one
\* stored block (or two), and the 8-byte trailer; and members cut short.
GzipHeader == <<31, 139, 8, 0, 0, 0, 0, 0, 0, 3>>
Stored(final, payload) ==
  <<final>> \o UInt16LE(Len(payload)) \o UInt16LE(65535 - Len(payload)) \o payload
Gzip(payload) == GzipHeader \o Stored(1, payload) \o Zeros(8)

TarHeader == Zeros(257) \o <<117, 115, 116, 97, 114, 0>> \o Zeros(249)

GzipPayloads ==
  {<<>>, <<66, 77>>, <<73, 68, 51>>, <<73, 68, 51, 3, 0, 0, 0, 0, 0, 0, 66, 77>>,
   <<26, 69, 223, 163>>, Zeros(4), TarHeader,
   PngSignature \o PngChunk(<<0, 0, 0, 0>>, IDAT, <<>>), PngSignature,
   Gzip(<<66, 77>>), Gzip(TarHeader)}

GzipInputs ==
  {Gzip(p) : p \in GzipPayloads}
  \cup {GzipHeader \o Stored(0, <<66>>) \o Stored(1, <<77>>) \o Zeros(8)}
  \cup {SubSeq(Gzip(<<66, 77>>), 1, n) : n \in {3, 10, 14, 16, 20}}
  \cup {SubSeq(Gzip(TarHeader), 1, 300)}

\* EBML headers: the root element, up to MaxSkipped elements before the
\* DocType element, and the DocType element; and the same cut short.
EbmlId == <<26, 69, 223, 163>>
Element(id, payload) == id \o <<128 + Len(payload)>> \o payload
EbmlVersion == Element(<<66, 134>>, <<1>>)
Void == <<236, 64, 1, 0>>
DocTypeElement(value) == Element(<<66, 130>>, value)
DocTypes ==
  {Matroska, Webm, Webm \o <<0, 0>>, Webm \o <<0, 10>>, <<102, 111, 111>>, <<>>}
EbmlBodies ==
  {Flatten(skipped) \o DocTypeElement(value) :
     skipped \in Seqs({EbmlVersion, Void}, MaxSkipped), value \in {Matroska, Webm}}
EbmlComplete == {EbmlId \o <<159>> \o body : body \in EbmlBodies}
Prefixes(bytes, from) == {SubSeq(bytes, 1, n) : n \in from..(Len(bytes) - 1)}
EbmlCutShort == UNION {Prefixes(bytes, 4) : bytes \in EbmlComplete}
\* An element that declares 36 bytes where fewer remain: one that is skipped,
\* and a DocType element.
EbmlOverlongSkipped == {EbmlId \o <<128 + n>> \o <<236, 164, 0, 0>> : n \in 1..2}
EbmlOverlongDocType ==
  {EbmlId \o <<159>> \o skipped \o <<66, 130, 164>> \o Webm : skipped \in {<<>>, EbmlVersion}}
\* Headers whose root element declares the length of its children in bytes;
\* and headers whose DocType element lies after the payload of the root.
EbmlExact ==
  {EbmlId \o <<128 + Len(body)>> \o body :
     body \in EbmlBodies \cup {EbmlVersion \o DocTypeElement(value) : value \in DocTypes}
                \cup {EbmlVersion, EbmlVersion \o Void}}
EbmlBeyondRoot ==
  {EbmlId \o <<128 + Len(skipped)>> \o skipped \o DocTypeElement(Webm) :
     skipped \in {<<>>, EbmlVersion, EbmlVersion \o Void}}
EbmlInputs ==
  EbmlComplete \cup EbmlCutShort
  \cup {EbmlId \o <<159>> \o EbmlVersion \o DocTypeElement(value) : value \in DocTypes}
  \cup {EbmlId \o <<128 + n>> \o EbmlVersion \o DocTypeElement(Webm) : n \in 0..2}
  \cup EbmlOverlongSkipped \cup EbmlOverlongDocType
  \cup EbmlExact \cup EbmlBeyondRoot
  \cup {EbmlId \o <<159>> \o Zeros(9) \o <<129, 0>> \o DocTypeElement(Webm)}

\* A PNG signature followed by less than one chunk header.
PngCutShort ==
  {PngSignature \o SubSeq(<<0, 0, 0, 1, 73, 72, 68, 82>>, 1, n) : n \in 0..7}

\* JPEG 2000 signature boxes with the brand at offset 20; and cut short.
Jp2Signature == <<0, 0, 0, 12, 106, 80, 32, 32, 13, 10, 135, 10>>
Jp2Complete ==
  {Jp2Signature \o Zeros(8) \o brand \o Zeros(4) :
     brand \in {row[1] : row \in Jp2Brands} \cup {<<106, 112, 50, 0>>, <<106, 112, 50, 160>>}}
Jp2CutShort == Prefixes(Jp2Signature \o Zeros(8) \o <<106, 112, 50, 32>>, 12)
Jp2Inputs == Jp2Complete \cup Jp2CutShort

\* ASF: the header object (30 bytes), then up to MaxObjects objects: one of
\* 24 bytes, one with 2 bytes of payload, Stream-Properties-Objects of each
\* type, and objects that declare 0 and 8 bytes; then 0 to 2 more bytes.
AsfId == <<48, 38, 178, 117, 142, 102, 207, 17, 166, 217>>
AsfHeader == AsfId \o Zeros(20)
OtherGuid == <<1>> \o Zeros(15)
AsfObject(guid, size, payload) == guid \o <<size>> \o Zeros(7) \o payload
AsfPieces ==
  {AsfObject(OtherGuid, 24, <<>>), AsfObject(OtherGuid, 26, <<0, 0>>),
   AsfObject(StreamPropertiesObject, 40, AsfAudio),
   AsfObject(StreamPropertiesObject, 40, AsfVideo),
   AsfObject(StreamPropertiesObject, 40, OtherGuid),
   AsfObject(OtherGuid, 0, <<>>), AsfObject(OtherGuid, 8, <<>>)}
AsfInputs ==
  {AsfHeader \o Flatten(objects) \o Zeros(k) : objects \in Seqs(AsfPieces, MaxObjects), k \in 0..2}

\* ar archives.
ArId == <<33, 60, 97, 114, 99, 104, 62, 10>>
ArInputs ==
  {ArId \o DebianBinary, ArId \o Zeros(13), ArId \o SubSeq(DebianBinary, 1, 12), ArId}

\* TIFF: byte order, version, IFD offset, then the IFD at that offset with up
\* to MaxTags tags; headers of other versions; a cr2 and a nef header.
Tiff(bigEndian, bytes) ==
  IF bigEndian THEN <<77, 77>> \o bytes ELSE <<73, 73>> \o bytes
U16(bigEndian, n) ==
  IF bigEndian THEN <<n \div 256, n % 256>> ELSE <<n % 256, n \div 256>>
U32(bigEndian, n) ==
  IF bigEndian THEN <<0, 0>> \o U16(bigEndian, n) ELSE U16(bigEndian, n) \o <<0, 0>>
TiffTag(bigEndian, tagId) == U16(bigEndian, tagId) \o Zeros(10)
TiffIfds(bigEndian) ==
  {U16(bigEndian, count) \o Flatten(tags) :
     count \in 0..(MaxTags + 1),
     tags \in Seqs({TiffTag(bigEndian, id) : id \in {256, 50341, 50706}}, MaxTags)}
TiffInputs ==
  UNION {
    {Tiff(e, U16(e, 42) \o U32(e, 8) \o ifd) : ifd \in TiffIfds(e)}
    \cup {Tiff(e, U16(e, 42) \o U32(e, 10) \o <<0, 0>> \o U16(e, 1) \o TiffTag(e, 50706)),
          Tiff(e, U16(e, 42) \o U32(e, 40) \o U16(e, 1)),
          Tiff(e, U16(e, 42) \o U32(e, 16) \o <<67, 82>>),
          Tiff(e, U16(e, 42) \o U32(e, 8) \o U16(e, 28) \o U16(e, 254)),
          Tiff(e, U16(e, 43) \o Zeros(4)),
          Tiff(e, U16(e, 44) \o Zeros(4)), Tiff(e, <<>>)}
    : e \in BOOLEAN}

\* A UTF-8 byte order mark, then: nothing, one byte, an XML declaration, a
\* bitmap, an icon, text, a second mark, an ID3 tag, PNG, TIFF and EBML inputs.
XmlDeclaration == <<60, 63, 120, 109, 108, 32>>
BomInputs ==
  {Utf8Bom \o rest :
     rest \in {<<>>, <<66>>, XmlDeclaration, XmlDeclaration \o <<118, 101, 114>>, <<66, 77>>,
               <<0, 0, 1, 0>>, <<104, 105>>, Utf8Bom \o XmlDeclaration, Utf8Bom,
               <<73, 68, 51>>, ID3Tag(0) \o <<66, 77>>, ID3Tag(1) \o <<0, 255, 251>>,
               PngSignature \o PngChunk(<<0, 0, 0, 0>>, IDAT, <<>>), PngSignature,
               PngSignature \o <<255, 251, 0, 0>> \o IDAT \o Zeros(4),
               <<73, 73, 42, 0, 8, 0, 0, 0, 1, 0>> \o TiffTag(FALSE, 50706),
               <<73, 73, 42, 0, 8, 0, 0, 0, 1, 0>>,
               EbmlId \o <<159>> \o DocTypeElement(Webm), Zeros(300),
               Zeros(257) \o <<117, 115, 116, 97, 114, 0>>}}

IsGzip(bytes) == Len(bytes) >= 3 /\ SubSeq(bytes, 1, 3) = <<31, 139, 8>>

NoText == [string |-> <<>>, encoding |-> "", step |-> "none", bytes |-> <<>>, decoded |-> <<>>]

\* ------------------------------------------------------------------- Init
NotApplied == [function |-> "", buffer |-> Uint8Array(0), offset |-> 0, headers |-> <<>>,
               options |-> NoOpt, returned |-> <<>>]

QuietCalls ==
  /\ buffer = [p \in Parsers |-> Uint8Array(reasonableDetectionSizeInBytes)]
  /\ thisTokenizer = [p \in Parsers |-> 0]
  /\ signal = FALSE
  /\ frames = [d \in Det |-> <<>>]
  /\ ret = [d \in Det |-> Value(undefined)]
  /\ outcome = [d \in Det |-> Pending]
  /\ log = [d \in Det |-> <<>>]
  /\ inflated = [d \in Det |-> <<>>]

Quiet == QuietCalls /\ text = NoText /\ applied = NotApplied

\* One call (1) through fromBuffer or fromStream.  When its input starts with
\* an ID3 tag or a UTF-8 byte order mark, a reference call (3) through
\* fromTokenizer on a second parser built with the same options, over the
\* stream that follows the tag or the mark.  When
\* its input is a gzip member that inflates without error, a reference call
\* (3) through fromStream on a second parser, over the inflated bytes.
Single(custom, tolerance, a, in) ==
  LET ref == HasID3Body(in.bytes) \/ HasBom(in.bytes)
      rest == IF HasBom(in.bytes) THEN AfterBom(in.bytes) ELSE AfterID3(in.bytes)
      gz == IsGzip(in.bytes) /\ inflate(in.bytes).error = ""
  IN  /\ customDetectors = custom
      /\ mpegOffsetTolerance = tolerance
      /\ parser = [d \in Det |-> IF d = 3 THEN 2 ELSE 1]
      /\ api = [d \in Det |-> IF d = 1 THEN a
                              ELSE IF d = 3 /\ ref THEN "fromTokenizer"
                              ELSE IF d = 3 /\ gz THEN "fromStream" ELSE ""]
      /\ input = [d \in Det |-> IF d = 1 THEN in
                                ELSE IF d = 3 /\ ref THEN Bytes(rest)
                                ELSE IF d = 3 /\ gz THEN Bytes(inflate(in.bytes).data)
                                ELSE NoInput]
      /\ tokenizer = [d \in Det |-> IF d = 3 /\ ref
                                    THEN (IF a = "fromStream" THEN StreamTokenizer(rest)
                                          ELSE BufferTokenizer(rest))
                                    ELSE NoTokenizer]
      /\ pc = [d \in Det |-> IF d = 1 THEN a
                             ELSE IF d = 3 /\ ref THEN "fromTokenizer"
                             ELSE IF d = 3 /\ gz THEN "fromStream" ELSE "none"]
      /\ stream = [d \in Det |-> NoStream]

Init ==
  /\ Quiet
  /\ \/ \E custom \in CustomLists, a \in {"fromBuffer", "fromStream"}, in \in PipelineInputs :
          Single(custom, 0, a, in)
     \/ \E tolerance \in 0..MaxTolerance, b \in MpegInputs :
          Single(<<>>, tolerance, "fromBuffer", Bytes(b))
     \/ \E a \in {"fromBuffer", "fromStream"}, size \in OddSizes :
          Single(<<>>, 0, a, Bytes(Zeros(size)))
     \/ \E a \in {"fromBuffer", "fromStream"},
           b \in PngInputs \cup ZipInputs \cup FtypInputs \cup EbmlInputs \cup Jp2Inputs
                \cup PngCutShort \cup AsfInputs \cup ArInputs \cup TiffInputs :
          Single(<<>>, 0, a, Bytes(b))
     \/ \E custom \in {<<>>, <<"mock.unicorn">>}, a \in {"fromBuffer", "fromStream"},
           b \in GzipInputs \cup BomInputs :
          Single(custom, 0, a, Bytes(b))

Next ==
  \/ \E d \in Det :
       \/ fromBuffer(d) \/ fromStream(d) \/ fromTokenizer(d)
       \/ invokeDetector(d) \/ loopEnd(d) \/ afterDetector(d) \/ fromTokenizerReturns(d)
       \/ propagate(d) \/ settle(d) \/ closeTokenizer(d)
       \/ customDetector(d)
       \/ detectConfident(d) \/ signatures32(d) \/ signatures256(d) \/ signatures512(d)
       \/ psPeek(d) \/ ps(d) \/ bom(d) \/ id3(d) \/ id3Length(d) \/ ogg(d) \/ oggType(d)
       \/ detectImprecise(d) \/ imprecise8(d) \/ scanMpegLoop(d)
       \/ png(d) \/ pngWalk(d) \/ zipWalk(d)
       \/ gzip(d) \/ gzipReturn(d) \/ ebml(d) \/ jp2(d)
       \/ asf(d) \/ asfWalk(d) \/ asfSkip(d) \/ ar(d)
       \/ tiffLE(d) \/ tiffBE(d) \/ afterTiffLE(d) \/ afterTiffBE(d)
  \/ abort

Spec == Init /\ [][Next]_vars

\* The calls that walk a PNG or an ASF container or detect again after an ID3
\* tag or a byte order mark, where the event loop runs every continuation that
\* is ready: a call that can take a step takes one.  Nothing makes the abort
\* signal fire.
LiveInputs ==
  {b \in PngInputs : Len(b) <= 40} \cup PngCutShort
  \cup {AsfHeader \o piece \o Zeros(k) : piece \in AsfPieces \cup {<<>>}, k \in 0..2}
  \cup {AsfHeader \o AsfObject(OtherGuid, 8, <<>>) \o AsfObject(OtherGuid, 0, <<>>) \o <<0>>,
        AsfHeader \o AsfObject(OtherGuid, 26, <<0, 0>>) \o AsfObject(StreamPropertiesObject, 40, AsfAudio)}
  \cup ID3Inputs
  \cup {Utf8Bom \o rest :
          rest \in {<<>>, XmlDeclaration, <<66, 77>>, Utf8Bom \o XmlDeclaration, Utf8Bom,
                    ID3Tag(1) \o <<0, 255, 251>>, PngSignature \o PngChunk(<<0, 0, 0, 0>>, IDAT, <<>>),
                    Zeros(300), Zeros(600)}}
  \cup {Zeros(300), Zeros(600)}

InitLive ==
  /\ Quiet
  /\ \E a \in {"fromBuffer", "fromStream"}, b \in LiveInputs : Single(<<>>, 0, a, Bytes(b))

NextLive ==
  \E d \in Det :
    \/ fromBuffer(d) \/ fromStream(d) \/ fromTokenizer(d)
    \/ invokeDetector(d) \/ loopEnd(d) \/ afterDetector(d) \/ fromTokenizerReturns(d)
    \/ propagate(d) \/ settle(d) \/ closeTokenizer(d)
    \/ detectConfident(d) \/ signatures32(d) \/ signatures256(d) \/ signatures512(d)
    \/ bom(d) \/ id3(d) \/ id3Length(d)
    \/ detectImprecise(d) \/ imprecise8(d) \/ scanMpegLoop(d)
    \/ png(d) \/ pngWalk(d)
    \/ asf(d) \/ asfWalk(d) \/ asfSkip(d)

SpecLive == InitLive /\ [][NextLive]_vars /\ WF_vars(NextLive)

\* Two calls (1, 2) through fromBuffer on one parser, and once both have
\* settled a reference call (3) with the input of call 1 on a parser of its own.
ConcInputs == {<<66, 77, 0, 0>>, <<0, 0, 0, 0>>, <<255, 251, 0, 0>>, <<0, 0, 1, 0>>}

InitConc ==
  /\ Quiet
  /\ customDetectors = <<>>
  /\ mpegOffsetTolerance = 0
  /\ parser = [d \in Det |-> IF d = 3 THEN 2 ELSE 1]
  /\ api = [d \in Det |-> "fromBuffer"]
  /\ \E b1 \in ConcInputs, b2 \in ConcInputs :
       input = [d \in Det |-> IF d = 2 THEN Bytes(b2) ELSE Bytes(b1)]
  /\ tokenizer = [d \in Det |-> NoTokenizer]
  /\ pc = [d \in Det |-> "fromBuffer"]
  /\ stream = [d \in Det |-> NoStream]

NextConc ==
  \E d \in Det :
    \/ fromBuffer(d) \/ fromTokenizer(d)
    \/ invokeDetector(d) \/ loopEnd(d) \/ afterDetector(d) \/ fromTokenizerReturns(d)
    \/ settle(d)
    \/ detectConfident(d) \/ signatures32(d) \/ signatures256(d) \/ signatures512(d)
    \/ detectImprecise(d) \/ imprecise8(d) \/ scanMpegLoop(d)

SpecConc == InitConc /\ [][NextConc]_vars

\* One toDetectionStream call (1) on a web stream or a Node stream.
StreamSources ==
  Seqs({0, 255, 251}, MaxSource) \cup {<<73, 68, 51>>, <<73, 68, 51, 3>>, <<73, 68, 51, 3, 0, 0, 0, 0, 0, 0>>}

InitStream ==
  /\ Quiet
  /\ customDetectors = <<>>
  /\ mpegOffsetTolerance = 0
  /\ parser = [d \in Det |-> 1]
  /\ api = [d \in Det |-> IF d = 1 THEN "toDetectionStream" ELSE ""]
  /\ input = [d \in Det |-> NoInput]
  /\ tokenizer = [d \in Det |-> NoTokenizer]
  /\ pc = [d \in Det |-> IF d = 1 THEN "toDetectionStream" ELSE "none"]
  /\ \E variant \in {"web", "node"}, sampleSize \in 0..MaxSample, source \in StreamSources,
        chunkType \in {"Uint8Array", "string"} :
       /\ variant = "web" => chunkType = "Uint8Array"
       /\ stream = [d \in Det |-> IF d = 1
                                  THEN [NoStream EXCEPT !.variant = variant,
                                                        !.sampleSize = sampleSize,
                                                        !.source = source,
                                                        !.chunkType = chunkType]
                                  ELSE NoStream]

NextStream ==
  \E d \in Det :
    \/ toDetectionStreamWeb(d) \/ toDetectionStreamNode(d) \/ streamSettle(d) \/ pipeChunk(d)
    \/ fromBuffer(d) \/ fromTokenizer(d)
    \/ invokeDetector(d) \/ loopEnd(d) \/ afterDetector(d) \/ fromTokenizerReturns(d)
    \/ propagate(d)
    \/ detectConfident(d) \/ signatures32(d) \/ signatures256(d) \/ signatures512(d)
    \/ id3(d) \/ id3Length(d)
    \/ detectImprecise(d) \/ imprecise8(d) \/ scanMpegLoop(d)

SpecStream == InitStream /\ [][NextStream]_vars


\* ------------------------------------------- the same input, detected twice
\* Call 1 detects a first input on parser 1.  Then the same second input is
\* detected by call 2 on parser 2, which is new, and by call 3 on parser 1,
\* through the same entry point and with the same options, each from a
\* tokenizer of its own.
FirstInputs == {<<0, 0, 1, 0>>, ID3Tag(0) \o <<255, 251>>}

SecondInputs ==
  {<<0, 0>>, <<66, 77>>, <<255, 251>>, Zeros(7), UNICORN,
   ID3Tag(1) \o <<0, 0, 0>>, ID3Tag(0) \o <<66, 77>>,
   <<239, 187, 191, 0, 0>>,
   OggPage(Zeros(8)),
   <<37, 33, 80, 83, 45, 65, 100, 111, 98, 101, 45, 51, 46, 48, 32, 69, 80, 83, 70, 45>>,
   PngSignature \o PngChunk(<<0, 0, 0, 0>>, IDAT, <<>>),
   PngSignature \o <<255, 251, 0, 0>> \o IDAT \o Zeros(4),
   ZipEntry(ManifestMf, <<>>),
   Gzip(<<0, 0>>), Gzip(TarHeader),
   EbmlId \o <<159>> \o EbmlVersion \o DocTypeElement(Webm),
   EbmlId \o <<129>> \o EbmlVersion, EbmlId \o <<159>> \o <<66, 130, 132, 119>>, PngSignature,
   Jp2Signature \o Zeros(8) \o <<106, 112, 50, 32>>}

InitTwice ==
  /\ Quiet
  /\ \E custom \in {<<>>, <<"mock.unicorn">>}, tolerance \in {0, MaxTolerance},
        a \in {"fromBuffer", "fromStream"}, b1 \in FirstInputs, b2 \in SecondInputs :
       /\ customDetectors = custom
       /\ mpegOffsetTolerance = tolerance
       /\ api = [d \in Det |-> a]
       /\ input = [d \in Det |-> IF d = 1 THEN Bytes(b1) ELSE Bytes(b2)]
       /\ pc = [d \in Det |-> IF d = 2 THEN "none" ELSE a]
  /\ parser = [d \in Det |-> IF d = 2 THEN 2 ELSE 1]
  /\ tokenizer = [d \in Det |-> NoTokenizer]
  /\ stream = [d \in Det |-> NoStream]

\* Call 2 is made once call 1 has settled.
second ==
  /\ pc[2] = "none" /\ pc[1] = "done"
  /\ pc' = [pc EXCEPT ![2] = api[2]]
  /\ UNCHANGED <<cfg, inflated, input, buffer, thisTokenizer, signal, tokenizer, frames, ret, outcome, log, stream>>

NextTwice ==
  \/ \E d \in Det :
       \/ fromBuffer(d) \/ fromStream(d) \/ fromTokenizer(d)
       \/ invokeDetector(d) \/ loopEnd(d) \/ afterDetector(d) \/ fromTokenizerReturns(d)
       \/ propagate(d) \/ settle(d) \/ closeTokenizer(d)
       \/ customDetector(d)
       \/ detectConfident(d) \/ signatures32(d) \/ signatures256(d) \/ signatures512(d)
       \/ psPeek(d) \/ ps(d) \/ bom(d) \/ id3(d) \/ id3Length(d) \/ ogg(d) \/ oggType(d)
       \/ detectImprecise(d) \/ imprecise8(d) \/ scanMpegLoop(d)
       \/ png(d) \/ pngWalk(d) \/ zipWalk(d)
       \/ gzip(d) \/ gzipReturn(d) \/ ebml(d) \/ jp2(d)
  \/ second

SpecTwice == InitTwice /\ [][NextTwice]_vars

\* ------------------------------------------------------ string conversions
\* new TextDecoder(encoding).decode(bytes) for utf-16le and utf-16be: the bytes
\* are paired into code units (low byte first or high byte first), a
\* surrogate that is not part of a pair becomes U+FFFD, and a byte order mark
\* U+FEFF at the start is removed (ignoreBOM is false by default).
RECURSIVE CodeUnits(_, _)
CodeUnits(bytes, lowFirst) ==
  IF bytes = <<>> THEN <<>>
  ELSE IF Len(bytes) = 1 THEN <<65533>>
  ELSE <<(IF lowFirst THEN bytes[1] + 256 * bytes[2] ELSE 256 * bytes[1] + bytes[2])>>
       \o CodeUnits(SubSeq(bytes, 3, Len(bytes)), lowFirst)

HighSurrogate(u) == u >= 55296 /\ u <= 56319
LowSurrogate(u) == u >= 56320 /\ u <= 57343

Scalars(units) ==
  [i \in DOMAIN units |->
     IF HighSurrogate(units[i]) /\ ~(i < Len(units) /\ LowSurrogate(units[i + 1])) THEN 65533
     ELSE IF LowSurrogate(units[i]) /\ ~(i > 1 /\ HighSurrogate(units[i - 1])) THEN 65533
     ELSE units[i]]

StripBom(units) == IF units # <<>> /\ units[1] = 65279 THEN Tail(units) ELSE units

TextDecode(bytes, encoding) == StripBom(Scalars(CodeUnits(bytes, encoding = "utf-16le")))

\* Strings of up to MaxString code units: ASCII, Latin-1, the BMP, the two
\* halves of U+1F984, U+FEFF and U+FFFE.
StringUnits == {65, 233, 43003, 55358, 56708, 65279, 65534}
Strings == Seqs(StringUnits, MaxString)

\* No detection is made; a string is encoded, then decoded.
InitBytes ==
  /\ QuietCalls
  /\ customDetectors = <<>>
  /\ mpegOffsetTolerance = 0
  /\ parser = [d \in Det |-> 1]
  /\ api = [d \in Det |-> ""]
  /\ input = [d \in Det |-> NoInput]
  /\ tokenizer = [d \in Det |-> NoTokenizer]
  /\ pc = [d \in Det |-> "none"]
  /\ stream = [d \in Det |-> NoStream]
  /\ \E string \in Strings, encoding \in {"utf-16le", "utf-16be", ""} :
       text = [string |-> string, encoding |-> encoding, step |-> "encode",
               bytes |-> <<>>, decoded |-> <<>>]
  /\ applied = NotApplied

NotText == <<customDetectors, mpegOffsetTolerance, buffer, thisTokenizer, signal, parser, api,
             input, tokenizer, pc, frames, ret, outcome, log, stream, applied, inflated>>

\* stringToBytes(string, encoding)
encode ==
  /\ text.step = "encode"
  /\ text' = [text EXCEPT !.bytes = stringToBytes(text.string, text.encoding),
                          !.step = "decode"]
  /\ UNCHANGED NotText

\* new TextDecoder(encoding).decode(new Uint8Array(bytes))
decode ==
  /\ text.step = "decode"
  /\ text.encoding # ""
  /\ text' = [text EXCEPT !.decoded = TextDecode(text.bytes, text.encoding),
                          !.step = "done"]
  /\ UNCHANGED NotText

NextBytes == encode \/ decode

SpecBytes == InitBytes /\ [][NextBytes]_vars

\* ------------------------------------------------- calls of the helpers
\* The octal digits of n, `width` of them, as ASCII.
Octal(n, width) == [i \in 1..width |-> 48 + ((n \div (8 ^ (width - i))) % 8)]

\* A 512-byte block: zeros but for the bytes at 0, 147, 156 and 511, the
\* checksum field at 148..153 and the two bytes after it.
TarBlock(first, at147, field, after, at156, last) ==
  <<first>> \o Zeros(146) \o <<at147>> \o field \o after \o <<at156>> \o Zeros(354) \o <<last>>

\* Checksum fields for a header whose bytes add up to sum: the sum in octal,
\* padded or cut short in the ways tar writers do, and fields that do not
\* hold it.
ChecksumFields(sum) ==
  {Octal(sum, 6), Octal(sum, 5) \o <<0>>, <<32>> \o Octal(sum, 4) \o <<0>>,
   Octal(sum, 4) \o <<32, 0>>, Octal(sum, 4) \o <<0, 10>>, Octal(sum, 4) \o <<0, 55>>,
   Octal(sum, 4) \o <<56, 0>>, <<43>> \o Octal(sum, 5),
   Octal(sum + 1, 6), Zeros(6), <<0>> \o Octal(sum, 5), <<57>> \o Octal(sum, 5),
   <<32, 32, 32, 32, 32, 32>>}

TarBlocks ==
  UNION {{TarBlock(first, at147, field, after, at156, last) :
            field \in ChecksumFields(8 * 32 + first + at147 + at156 + last),
            after \in {<<0, 0>>, <<0, 32>>, <<255, 255>>}} :
         first \in {0, 97}, at147 \in {0, 255}, at156 \in {0, 1}, last \in {0, 255}}

TokenBytes == {0, 1, 127, 128, 255}
PatternBytes == {0, 1, 255}

Samples == {[len |-> Len(bytes), bytes |-> bytes] : bytes \in Seqs(PatternBytes, MaxPattern) \ {<<>>}}
CheckOptions ==
  {Off(offset) : offset \in 0..MaxPattern}
  \cup {Msk(offset, mask) : offset \in 0..MaxPattern, mask \in Seqs(PatternBytes, MaxPattern)}

Applied(function, array, headers, options) ==
  [function |-> function, buffer |-> array, offset |-> 0, headers |-> headers,
   options |-> options, returned |-> <<>>]

\* No detection is made; one helper is called once.
InitUtil ==
  /\ QuietCalls
  /\ customDetectors = <<>>
  /\ mpegOffsetTolerance = 0
  /\ parser = [d \in Det |-> 1]
  /\ api = [d \in Det |-> ""]
  /\ input = [d \in Det |-> NoInput]
  /\ tokenizer = [d \in Det |-> NoTokenizer]
  /\ pc = [d \in Det |-> "none"]
  /\ stream = [d \in Det |-> NoStream]
  /\ text = NoText
  /\ \/ \E block \in TarBlocks :
          applied = Applied("tarHeaderChecksumMatches", [len |-> 512, bytes |-> block], <<>>, NoOpt)
     \/ \E b0 \in TokenBytes, b1 \in TokenBytes, b2 \in TokenBytes, b3 \in TokenBytes :
          applied = Applied("uint32SyncSafeToken", [len |-> 4, bytes |-> <<b0, b1, b2, b3>>],
                            <<>>, NoOpt)
     \/ \E sample \in Samples, headers \in Seqs(PatternBytes, MaxPattern), options \in CheckOptions :
          applied = Applied("check", sample, headers, options)

NotApplying == <<customDetectors, mpegOffsetTolerance, buffer, thisTokenizer, signal, parser, api,
                 input, tokenizer, pc, frames, ret, outcome, log, stream, text, inflated>>

Awaiting(function) == applied.function = function /\ applied.returned = <<>>

\* tarHeaderChecksumMatches(arrayBuffer)
callTarHeaderChecksumMatches ==
  /\ Awaiting("tarHeaderChecksumMatches")
  /\ applied' = [applied EXCEPT
                   !.returned = <<tarHeaderChecksumMatches(applied.buffer, applied.offset)>>]
  /\ UNCHANGED NotApplying

\* uint32SyncSafeToken.get(buffer, offset)
callUint32SyncSafeToken ==
  /\ Awaiting("uint32SyncSafeToken")
  /\ applied' = [applied EXCEPT
                   !.returned = <<uint32SyncSafeToken(applied.buffer, applied.offset)>>]
  /\ UNCHANGED NotApplying

\* this.check(header, options)
callCheck ==
  /\ Awaiting("check")
  /\ applied' = [applied EXCEPT
                   !.returned = <<check(applied.buffer, applied.headers, applied.options)>>]
  /\ UNCHANGED NotApplying

NextUtil == callTarHeaderChecksumMatches \/ callUint32SyncSafeToken \/ callCheck

SpecUtil == InitUtil /\ [][NextUtil]_vars
\* ================================================================= claims
Done(d) == pc[d] = "done"

\* The detectors a call has invoked in its activations of fromTokenizer at
\* nesting depth k, in the order of invocation.
AtDepth(d, k) == SelectSeq(log[d], LAMBDA e : e.depth = k)
Depths(d) == {log[d][i].depth : i \in DOMAIN log[d]}
Ids(s) == [i \in DOMAIN s |-> s[i].id]
IsPrefix(s, t) == Len(s) <= Len(t) /\ SubSeq(t, 1, Len(s)) = s
Last(s) == s[Len(s)]

\* C1: in every activation of fromTokenizer the detectors invoked are, in
\* order, an initial part of: the custom detectors as supplied, "core",
\* "core.imprecise"; a detector is invoked only after every detector before it
\* returned nothing and left the position alone, and such a detector is
\* followed by the next one; a call that ends without error returns the result
\* of the first (hence last invoked) detector that returned one, so a custom
\* detector that returns a result pre-empts the built-ins.
C1_PipelineOrder ==
  \A d \in Det : \A k \in Depths(d) :
    LET a == AtDepth(d, k)
    IN  /\ IsPrefix(Ids(a), customDetectors \o <<"core", "core.imprecise">>)
        /\ \A i \in 1..(Len(a) - 1) :
             a[i].state = "returned" /\ a[i].ft = undefined /\ ~a[i].moved
        /\ (k = 1 /\ Done(d) /\ ret[d].error = "") =>
             /\ Last(a).state = "returned"
             /\ outcome[d] = Resolved(Last(a).ft)
             /\ (Last(a).ft = undefined /\ ~Last(a).moved) => Last(a).id = "core.imprecise"

C1_Witness ==
  /\ Done(1)
  /\ customDetectors = <<"mock.unicorn", "mock.png">>
  /\ input[1].bytes = <<66, 77>>
  /\ api[1] = "fromStream"
  /\ Ids(log[1]) = <<"mock.unicorn", "mock.png">>
  /\ outcome[1] = Resolved(FT("mockPng", "image/mockPng"))

\* C2: once a detector has returned nothing and the tokenizer's position
\* differs from the one recorded when the pipeline was entered, no further
\* detector is invoked on that call and the pipeline returns unknown.  (The
\* log is in order of invocation: the entries after such a detector's are
\* those of the pipeline nested in it, invoked before it returned.)
C2_HaltOnMovedPosition ==
  \A d \in Det : \A i \in DOMAIN log[d] :
    (log[d][i].state = "returned" /\ log[d][i].ft = undefined /\ log[d][i].moved) =>
      /\ \A j \in DOMAIN log[d] : j > i => log[d][j].depth > log[d][i].depth
      /\ pc[d] \in {"return", "detected", "settle", "done"}
      /\ ret[d] = Value(undefined)
      /\ Done(d) => outcome[d] = Resolved(undefined)

C2_Witness ==
  /\ Done(1)
  /\ customDetectors = <<"mock.dirtyTokenizer", "mock.unicorn">>
  /\ input[1].bytes = UNICORN
  /\ Len(log[1]) = 1 /\ log[1][1].moved
  /\ outcome[1] = Resolved(undefined)

\* C3: of two detections interleaved on one parser instance, each returns
\* what it returns when run alone: call 1, which shares its parser with call
\* 2, ends as the reference call 3 does, which has the same input and a parser
\* of its own.
C3_ConcurrentAsAlone ==
  (Done(1) /\ Done(3)) => outcome[1] = outcome[3]

C5_EmptyInputUnknown ==
  \A d \in Det :
    (/\ api[d] = "fromBuffer"
     /\ input[d].type \in {"Uint8Array", "ArrayBuffer"}
     /\ input[d].bytes = <<>>) =>
      /\ pc[d] # "throw"
      /\ ret[d].error = ""
      /\ outcome[d].state # "rejected"
      /\ Done(d) => outcome[d] = Resolved(undefined)

C5_Witness ==
  /\ Done(1)
  /\ api[1] = "fromBuffer"
  /\ input[1] = Input("ArrayBuffer", <<>>)
  /\ customDetectors = <<"mock.png">>
  /\ log[1] = <<>>
  /\ outcome[1] = Resolved(undefined)

C7_EndOfStreamTolerated ==
  \A d \in Det :
    (api[d] = "toDetectionStream" /\ Done(d) /\ ret[d].error # "") =>
      IF ret[d].error = "End-Of-Stream"
      THEN /\ outcome[d] = Resolved(undefined)
           /\ stream[d].returned
           /\ stream[d].delivered = SubSeq(stream[d].source, 1, stream[d].taken)
           /\ stream[d].taken < Len(stream[d].source) => ENABLED pipeChunk(d)
      ELSE /\ outcome[d] = Rejected(ret[d].error)
           /\ ~stream[d].returned

C7_Witness ==
  /\ Done(1)
  /\ stream[1].variant = "web"
  /\ stream[1].sampleSize = 3
  /\ stream[1].source = <<73, 68, 51, 3>>
  /\ ret[1].error = "End-Of-Stream"
  /\ outcome[1] = Resolved(undefined)
  /\ stream[1].returned
  /\ stream[1].delivered = <<73, 68, 51, 3>>

\* The other case of C7: a Node stream that yields strings makes fromBuffer
\* throw a TypeError, and the call rejects.
C7_WitnessOtherError ==
  /\ Done(1)
  /\ stream[1].variant = "node"
  /\ ret[1].error = "TypeError"
  /\ outcome[1] = Rejected("TypeError")

\* C8: once a tokenizer operation has raised Aborted in a detection, the call
\* only unwinds: no detector is invoked after the failing one (the last entry
\* of the log stays the detector that failed), the error is not turned into a
\* result or into unknown, and the call rejects with Aborted.
C8_AbortedPropagates ==
  \A d \in Det :
    ret[d].error = "Aborted" =>
      /\ signal
      /\ pc[d] \in {"throw", "settle", "done"}
      /\ log[d] # <<>>
      /\ Last(log[d]).state \in {"running", "threw"}
      /\ pc[d] \in {"settle", "done"} =>
           \A i \in DOMAIN log[d] : log[d][i].state \in {"returned", "threw"}
      /\ outcome[d].state # "resolved"
      /\ Done(d) => outcome[d] = Rejected("Aborted")

C8_Witness ==
  /\ Done(1)
  /\ api[1] = "fromStream"
  /\ customDetectors = <<"mock.unicorn">>
  /\ outcome[1] = Rejected("Aborted")
  /\ Ids(log[1]) = <<"mock.unicorn", "core", "mock.unicorn", "core">>
  /\ Last(log[1]).depth = 2 /\ Last(log[1]).state = "threw"

\* Bit k of byte b.
Bit(b, k) == (b \div (2 ^ k)) % 2

\* The type of the MPEG audio frame whose sync word ends in byte b: ADTS when
\* bit 4 is set and bits 2 and 1 are clear, else by the layer bits 2..1.
FrameType(b) ==
  IF Bit(b, 4) = 1 /\ Bit(b, 2) = 0 /\ Bit(b, 1) = 0 THEN FT("aac", "audio/aac")
  ELSE IF Bit(b, 2) = 0 /\ Bit(b, 1) = 1 THEN FT("mp3", "audio/mpeg")
  ELSE IF Bit(b, 2) = 1 /\ Bit(b, 1) = 0 THEN FT("mp2", "audio/mpeg")
  ELSE IF Bit(b, 2) = 1 /\ Bit(b, 1) = 1 THEN FT("mp1", "audio/mpeg")
  ELSE undefined

\* The offsets (from 0) at which bytes holds a frame sync that is classified.
FrameOffsets(bytes) ==
  {i \in 0..(Len(bytes) - 2) :
     bytes[i + 1] = 255 /\ bytes[i + 2] >= 224 /\ FrameType(bytes[i + 2]) # undefined}

\* The input matches one of the arms the imprecise detector tries first.
ImpreciseContainer(bytes) ==
  \E h \in {<<0, 0, 1, 186>>, <<0, 0, 1, 179>>, <<0, 1, 0, 0, 0>>, <<0, 0, 1, 0>>, <<0, 0, 2, 0>>} :
    IsPrefix(h, bytes)

\* C9: when no earlier arm matches (the confident detector returned nothing
\* and the imprecise detector's container arms do not apply), detection with
\* tolerance T yields the type of the frame at the first offset d at which a
\* frame sync is classified when d <= T, and unknown when there is no such
\* offset or T < d.
C9_MpegOffsetTolerance ==
  \A d \in Det :
    (/\ Done(d)
     /\ api[d] = "fromBuffer"
     /\ Ids(log[d]) = <<"core", "core.imprecise">>
     /\ log[d][1].ft = undefined
     /\ ~ImpreciseContainer(input[d].bytes)) =>
      LET within == {i \in FrameOffsets(input[d].bytes) : i <= mpegOffsetTolerance}
          first == CHOOSE i \in within : \A j \in within : i <= j
      IN  outcome[d] = Resolved(IF within = {} THEN undefined
                                ELSE FrameType(input[d].bytes[first + 2]))

C9_Witness ==
  /\ Done(1)
  /\ mpegOffsetTolerance = 2
  /\ input[1].bytes = <<0, 0, 255, 251>>
  /\ outcome[1] = Resolved(FT("mp3", "audio/mpeg"))

\* The same input at a tolerance below the offset of its frame: unknown.
C9_WitnessBelow ==
  /\ Done(1)
  /\ mpegOffsetTolerance = 1
  /\ input[1].bytes = <<0, 0, 255, 251>>
  /\ outcome[1] = Resolved(undefined)

\* The length an ID3 header declares (bytes 6..9 of the input).
DeclaredLength(bytes) == uint32SyncSafeToken([len |-> Len(bytes), bytes |-> bytes], 6)

\* Call d has an input that starts with a whole ID3 header, and its confident
\* detector got to test it first.
ID3Case(d) ==
  /\ Done(d)
  /\ Len(input[d].bytes) >= 10
  /\ IsPrefix(<<73, 68, 51>>, input[d].bytes)
  /\ \E i \in DOMAIN log[d] : log[d][i].depth = 1 /\ log[d][i].id = "core"
  /\ ~signal

\* C10 as stated: with L the declared length, position 10 after the header
\* and the size of the input, the call yields mp3 when position + L >= size,
\* and otherwise what the full pipeline (reference call 3) yields on the
\* stream that follows the tag.
C10_ID3AsStated ==
  (ID3Case(1) /\ api[1] = "fromBuffer") =>
    IF 10 + DeclaredLength(input[1].bytes) >= Len(input[1].bytes)
    THEN outcome[1] = Resolved(FT("mp3", "audio/mpeg"))
    ELSE Done(3) => outcome[1] = outcome[3]

\* C10: the call yields mp3 when position + L > size (size being the length
\* of the source when known and the largest safe integer for a stream);
\* otherwise the L bytes are skipped, which fails with End-Of-Stream when a
\* stream ends before them, and the call yields what the full pipeline
\* (custom detectors first, then core, then core.imprecise; reference call 3)
\* yields on the stream that follows the tag.
C10_ID3 ==
  ID3Case(1) =>
    LET bytes == input[1].bytes
        size == IF api[1] = "fromBuffer" THEN Len(bytes) ELSE MAX_SAFE_INTEGER
    IN  IF 10 + DeclaredLength(bytes) > size
        THEN outcome[1] = Resolved(FT("mp3", "audio/mpeg"))
        ELSE IF 10 + DeclaredLength(bytes) > Len(bytes)
        THEN outcome[1] = Rejected("End-Of-Stream")
        ELSE /\ api[3] = "fromTokenizer"
             /\ tokenizer[3].data = SubSeq(bytes, 11 + DeclaredLength(bytes), Len(bytes))
             /\ Done(3) => outcome[1] = outcome[3]

C10_Witness ==
  /\ ID3Case(1) /\ Done(3)
  /\ api[1] = "fromBuffer"
  /\ customDetectors = <<"mock.unicorn">>
  /\ input[1].bytes = ID3Tag(1) \o <<0>> \o UNICORN
  /\ Ids(log[1]) = <<"mock.unicorn", "core", "mock.unicorn">>
  /\ outcome[1] = Resolved(FT("unicorn", "application/unicorn"))
  /\ outcome[3] = outcome[1]


\* ------------------------------------------------------------------ C11
\* The chunk header the walk over a PNG input stops at, in file order from
\* `pos`: "negative" for a header declaring a negative length, "IDAT", "acTL",
\* or "none" when the input ends first.  A header counts when it lies within
\* the input and, unless it is the first one, at least one byte follows it.
RECURSIVE FirstDecisiveChunk(_, _, _)
FirstDecisiveChunk(bytes, pos, first) ==
  IF pos + 8 > Len(bytes) \/ (~first /\ pos + 8 = Len(bytes)) THEN "none"
  ELSE LET length == INT32_BE(SubSeq(bytes, pos + 1, pos + 4))
           type == SubSeq(bytes, pos + 5, pos + 8)
       IN  IF length < 0 THEN "negative"
           ELSE IF type = IDAT THEN "IDAT"
           ELSE IF type = acTL THEN "acTL"
           ELSE IF pos + 12 + length > Len(bytes) THEN "none"
           ELSE FirstDecisiveChunk(bytes, pos + 12 + length, FALSE)

IsPng(d) ==
  /\ Len(input[d].bytes) >= 8
  /\ SubSeq(input[d].bytes, 1, 8) = PngSignature
  /\ customDetectors = <<>>

C11_WitnessNegative ==
  /\ Done(1)
  /\ input[1].bytes = PngSignature
                        \o PngChunk(<<0, 0, 0, 1>>, <<73, 72, 68, 82>>, <<0>>)
                        \o PngChunk(<<255, 255, 255, 255>>, <<73, 72, 68, 82>>, <<>>)
  /\ outcome[1] = Resolved(undefined)

\* ------------------------------------------------------------------ C12
\* The entries of a ZIP input in file order, from the local file header at
\* `pos` on: the name and the data of each.
RECURSIVE ZipListing(_, _)
ZipListing(bytes, pos) ==
  IF pos + 30 > Len(bytes) \/ slice(bytes, pos, pos + 4) # LocalFileHeader THEN <<>>
  ELSE LET header == slice(bytes, pos, pos + 30)
           name == pos + 30
           data == name + UINT16_LE(header, 26) + UINT16_LE(header, 28)
           end == data + UINT32_LE(header, 18)
       IN  <<[filename |-> slice(bytes, name, name + UINT16_LE(header, 26)),
              data |-> slice(bytes, data, end), end |-> end]>>
           \o ZipListing(bytes, end)

\* The archive is complete: the central directory follows the last entry.
ZipComplete(bytes) ==
  LET entries == ZipListing(bytes, 0)
      end == IF entries = <<>> THEN 0 ELSE entries[Len(entries)].end
  IN  slice(bytes, end, end + 4) = CentralFileHeader

\* The names the detector gives a meaning to.
SpecialName(filename) ==
  \/ filename \in {MozillaRsa, ManifestMf, MimetypeName, ContentTypesXml}
  \/ classesDex(filename)

IsZip(d) ==
  /\ slice(input[d].bytes, 0, 4) = LocalFileHeader
  /\ customDetectors = <<>>

Jar == FT("jar", "application/java-archive")
Apk == FT("apk", "application/vnd.android.package-archive")
Epub == FT("epub", "application/epub+zip")
Zip == FT("zip", "application/zip")
EpubBody == <<97, 112, 112, 108, 105, 99, 97, 116, 105, 111, 110, 47, 101, 112, 117, 98, 43, 122, 105, 112>>
ClassesDexName == <<99, 108, 97, 115, 115, 101, 115, 46, 100, 101, 120>>

\* C12 as stated: a ZIP with a META-INF/MANIFEST.MF entry is a jar, a ZIP with
\* a classes.dex entry is an apk, a ZIP whose first entry is mimetype with the
\* body application/epub+zip is an epub, and a ZIP whose walk completes with
\* no special entry is a zip.
C12_AnyEntryDecides ==
  (Done(1) /\ IsZip(1) /\ ~signal) =>
    LET entries == ZipListing(input[1].bytes, 0)
    IN  /\ (\E i \in DOMAIN entries : entries[i].filename = ManifestMf)
             => outcome[1] = Resolved(Jar)
        /\ (\E i \in DOMAIN entries : entries[i].filename = ClassesDexName)
             => outcome[1] = Resolved(Apk)
        /\ (entries # <<>> /\ entries[1].filename = MimetypeName /\ entries[1].data = EpubBody)
             => outcome[1] = Resolved(Epub)
        /\ (ZipComplete(input[1].bytes) /\ \A i \in DOMAIN entries : ~SpecialName(entries[i].filename))
             => outcome[1] = Resolved(Zip)

\* C12, amended: the first entry with a special name decides.  When it is
\* META-INF/MANIFEST.MF the result is jar; when it is a classes.dex entry the
\* result is apk; a first entry mimetype with the body application/epub+zip
\* gives epub; a walk that completes with no special entry gives zip.
C12_FirstSpecialEntryDecides ==
  (Done(1) /\ IsZip(1) /\ ~signal) =>
    LET entries == ZipListing(input[1].bytes, 0)
        special == {i \in DOMAIN entries : SpecialName(entries[i].filename)}
        first == CHOOSE i \in special : \A j \in special : i <= j
    IN  /\ (special # {} /\ entries[first].filename = ManifestMf)
             => outcome[1] = Resolved(Jar)
        /\ (special # {} /\ entries[first].filename = ClassesDexName)
             => outcome[1] = Resolved(Apk)
        /\ (entries # <<>> /\ entries[1].filename = MimetypeName /\ entries[1].data = EpubBody)
             => outcome[1] = Resolved(Epub)
        /\ (ZipComplete(input[1].bytes) /\ special = {})
             => outcome[1] = Resolved(Zip)

\* An archive with an ordinary entry and then META-INF/MANIFEST.MF is a jar.
C12_Witness ==
  /\ Done(1)
  /\ IsZip(1)
  /\ LET entries == ZipListing(input[1].bytes, 0)
     IN  /\ Len(entries) = 2
         /\ ~SpecialName(entries[1].filename)
         /\ entries[2].filename = ManifestMf
  /\ outcome[1] = Resolved(Jar)

\* ------------------------------------------------------------------ C13
IsFtyp(d) ==
  /\ Len(input[d].bytes) >= 12
  /\ SubSeq(input[d].bytes, 5, 8) = <<102, 116, 121, 112>>
  /\ And(input[d].bytes[9], 96) # 0
  /\ customDetectors = <<>>

\* The 4 bytes at offset 8 with the NUL bytes stripped and white space trimmed.
StrippedBrand(bytes) == trim(SelectSeq(SubSeq(bytes, 9, 12), LAMBDA c : c # 0))

\* C13: with ftyp at offset 4 and (byte 8 & 0x60) != 0 the result is the
\* table's entry for the major brand, the 4 bytes at offset 8 with NUL bytes
\* stripped and white space trimmed: heic / heix give heic, qt gives mov, M4A
\* gives m4a, a brand starting 3g2 gives 3g2, another one starting 3g gives
\* 3gp, a brand not in the table gives mp4; padding with spaces and padding
\* with NUL bytes give the same result.
C13_BrandDispatch ==
  (Done(1) /\ IsFtyp(1) /\ ~signal) =>
    LET brand == StrippedBrand(input[1].bytes)
    IN  /\ outcome[1] = Resolved(ftypType(brand))
        /\ brand \in {<<104, 101, 105, 99>>, <<104, 101, 105, 120>>}
             => outcome[1] = Resolved(FT("heic", "image/heic"))
        /\ brand = <<113, 116>> => outcome[1] = Resolved(FT("mov", "video/quicktime"))
        /\ brand = <<77, 52, 65>> => outcome[1] = Resolved(FT("m4a", "audio/x-m4a"))
        /\ startsWith(brand, <<51, 103, 50>>) => outcome[1] = Resolved(FT("3g2", "video/3gpp2"))
        /\ (startsWith(brand, <<51, 103>>) /\ ~startsWith(brand, <<51, 103, 50>>))
             => outcome[1] = Resolved(FT("3gp", "video/3gpp"))
        /\ (\A row \in FtypBrands : row.brand # brand) /\ ~startsWith(brand, <<51, 103>>)
             => outcome[1] = Resolved(FT("mp4", "video/mp4"))

\* ---------------------------------------------------------------------- C14
GzFamily == {FT("gz", "application/gzip"), FT("tar.gz", "application/gzip")}

\* C14: every input beginning 1F 8B 08 yields a gzip-family result: tar.gz
\* exactly when the detection of the inflated stream (the reference call, made
\* with the same options) returns ext tar, gz in every other case.
C14_GzipFamily ==
  (Done(1) /\ ~signal /\ IsGzip(input[1].bytes)) =>
    /\ outcome[1].state = "resolved"
    /\ outcome[1].ft \in GzFamily
    /\ Done(3) => (outcome[1].ft.ext = "tar.gz" <=>
                     (outcome[3].state = "resolved" /\ outcome[3].ft # undefined
                      /\ outcome[3].ft.ext = "tar"))

\* The part of C14 that the code keeps: when the call resolves.
C14_WhenResolved ==
  (Done(1) /\ ~signal /\ IsGzip(input[1].bytes) /\ outcome[1].state = "resolved") =>
    /\ outcome[1].ft \in GzFamily
    /\ Done(3) => (outcome[1].ft.ext = "tar.gz" <=>
                     (outcome[3].state = "resolved" /\ outcome[3].ft # undefined
                      /\ outcome[3].ft.ext = "tar"))

\* A well-formed gzip member whose content is a PNG signature and nothing
\* else: the nested detection runs out of bytes, and so does the whole call.
C14_NestedFailure ==
  /\ Done(1) /\ ~signal
  /\ input[1].bytes = Gzip(PngSignature)
  /\ outcome[1] = Rejected("End-Of-Stream")
  /\ Done(3) /\ outcome[3] = Rejected("End-Of-Stream")

\* A gzip member that holds a tar archive is told from one that does not.
C14_TarGz ==
  /\ Done(1) /\ Done(3) /\ ~signal
  /\ input[1].bytes = Gzip(TarHeader)
  /\ outcome[1] = Resolved(FT("tar.gz", "application/gzip"))
  /\ outcome[3] = Resolved(FT("tar", "application/x-tar"))

\* ---------------------------------------------------------------------- C15
Begins(bytes, header) == Len(bytes) >= Len(header) /\ SubSeq(bytes, 1, Len(header)) = header

\* The input sends the confident detector into its BOM or ID3 recursion.
Recursing(bytes) == Begins(bytes, <<239, 187, 191>>) \/ Begins(bytes, <<73, 68, 51>>)

\* The confident detector of the outermost pipeline of call d has returned
\* nothing, outside its BOM / ID3 recursions: its entries in the log.
NoMatchExits(d) ==
  {i \in DOMAIN log[d] :
     /\ log[d][i].id = "core" /\ log[d][i].depth = 1
     /\ log[d][i].state = "returned" /\ log[d][i].ft = undefined
     /\ ~Recursing(input[d].bytes)}

\* The imprecise detector is the next one invoked after entry i.
ImpreciseFollows(d, i) ==
  /\ i < Len(log[d])
  /\ log[d][i + 1].id = "core.imprecise" /\ log[d][i + 1].depth = 1

\* The arms that consume bytes before they give up.
ConsumingArm(bytes) ==
  Begins(bytes, PngSignature) \/ Begins(bytes, EbmlId) \/ Begins(bytes, Jp2Signature)

\* C15 as stated: whenever the confident detector exits without a match
\* outside its BOM / ID3 recursions, the tokenizer is at the position it had
\* when the detector was entered.
C15_PositionRestored ==
  \A d \in Det : \A i \in NoMatchExits(d) : ~log[d][i].moved

\* C15, amended: an exit without a match that has only peeked leaves the
\* position where it was, and the imprecise detector runs next; an exit
\* without a match of the PNG, EBML or JPEG 2000 arm leaves the position
\* advanced, the imprecise detector is not run and the call returns unknown.
C15_PeekOnlyExitsRestore ==
  \A d \in Det : \A i \in NoMatchExits(d) :
    IF ConsumingArm(input[d].bytes)
    THEN /\ log[d][i].moved
         /\ i = Len(log[d])
         /\ Done(d) => outcome[d] = Resolved(undefined)
    ELSE /\ ~log[d][i].moved
         /\ pc[d] \notin {"detected", "loop"} => ImpreciseFollows(d, i)

C15_Witness ==
  /\ Done(1) /\ 1 \in NoMatchExits(1)
  /\ input[1].bytes = Jp2Signature \o Zeros(8) \o <<106, 112, 50, 0>> \o Zeros(4)
  /\ log[1][1].moved /\ tokenizer[1].position = 24
  /\ outcome[1] = Resolved(undefined)

C15_WitnessPeekOnly ==
  /\ Done(1) /\ 1 \in NoMatchExits(1)
  /\ ~log[1][1].moved /\ ImpreciseFollows(1, 1)
  /\ outcome[1] = Resolved(undefined)

\* ---------------------------------------------------------------------- C16
\* A PNG whose first chunk declares a negative length.
PngNegativeLength(bytes) ==
  Begins(bytes, PngSignature) /\ Len(bytes) >= 16 /\ bytes[9] >= 128

Malformed(bytes) ==
  PngNegativeLength(bytes) \/ bytes \in EbmlOverlongSkipped \cup EbmlOverlongDocType

C16_WitnessPng ==
  /\ Done(1) /\ ~signal
  /\ PngNegativeLength(input[1].bytes)
  /\ outcome[1] = Resolved(undefined)

\* An over-long element that is skipped, as the last child of the root, in a
\* buffer: the skip stops at the end of the buffer and the result is unknown.
C16_WitnessSkipped ==
  /\ Done(1) /\ ~signal
  /\ input[1].bytes = EbmlId \o <<129>> \o <<236, 164, 0, 0>>
  /\ api[1] = "fromBuffer"
  /\ outcome[1] = Resolved(undefined)

\* ---------------------------------------------------------------------- C17
\* Inputs on which a container probe needs more bytes than there are: an EBML
\* header cut before the end of its DocType element, a PNG signature without
\* a whole chunk header, a JPEG 2000 signature box cut before the end of its
\* brand.
CutShort(bytes) == bytes \in EbmlCutShort \cup PngCutShort \cup Jp2CutShort

C18_TypeErrorFirst ==
  \A d \in Det :
    (api[d] = "fromBuffer" /\ pc[d] # "fromBuffer"
     /\ input[d].type \notin {"Uint8Array", "ArrayBuffer"}) =>
      /\ ret[d] = Error("TypeError")
      /\ tokenizer[d] = NoTokenizer
      /\ log[d] = <<>> /\ frames[d] = <<>>
      /\ Done(d) => outcome[d] = Rejected("TypeError")

C18_Witness ==
  /\ Done(1) /\ api[1] = "fromBuffer"
  /\ input[1] = Input("string", <<66, 77>>)
  /\ customDetectors = <<"mock.unicorn">>
  /\ tokenizer[1] = NoTokenizer /\ log[1] = <<>>
  /\ outcome[1] = Rejected("TypeError")

\* ---------------------------------------------------------------------- C19
\* C19: detection is deterministic: two detections of the same input with the
\* same options, each from a tokenizer of its own, end the same way, whether
\* the parser is new (call 2) or has detected another input before (call 3).
C19_Deterministic ==
  (Done(2) /\ Done(3)) => outcome[2] = outcome[3]

C19_Witness ==
  /\ Done(1) /\ Done(2) /\ Done(3)
  /\ input[1].bytes = <<0, 0, 1, 0>> /\ outcome[1] = Resolved(FT("ico", "image/x-icon"))
  /\ input[2].bytes = <<0, 0>> /\ input[3] = input[2]
  /\ parser[3] = parser[1] /\ parser[2] # parser[1]
  /\ outcome[2] = Resolved(undefined) /\ outcome[3] = outcome[2]

\* ---------------------------------------------------------------------- C20
\* A string of BMP characters and surrogate pairs: no surrogate stands alone.
WellFormed(string) == Scalars(string) = string

Utf16Encoded == text.step = "done" /\ text.encoding \in {"utf-16le", "utf-16be"}

\* Each code unit gives two bytes, in the order of the encoding (so a
\* surrogate pair gives four).
TwoBytesEach ==
  /\ Len(text.bytes) = 2 * Len(text.string)
  /\ \A i \in DOMAIN text.string :
       LET low == text.string[i] % 256
           high == text.string[i] \div 256
       IN  IF text.encoding = "utf-16le"
           THEN text.bytes[2 * i - 1] = low /\ text.bytes[2 * i] = high
           ELSE text.bytes[2 * i - 1] = high /\ text.bytes[2 * i] = low

\* C20 as stated: for every string of BMP characters and surrogate pairs,
\* decoding stringToBytes(s, enc) under enc gives back s, for utf-16le and
\* utf-16be, and each code unit produces exactly two bytes.
C20_RoundTrip ==
  (Utf16Encoded /\ WellFormed(text.string)) =>
    text.decoded = text.string /\ TwoBytesEach

\* C20, amended: the same for every such string that does not begin with
\* U+FEFF, which the decoder takes for a byte order mark and removes.
C20_RoundTripWithoutBom ==
  (Utf16Encoded /\ WellFormed(text.string)
   /\ ~(text.string # <<>> /\ text.string[1] = 65279)) =>
    text.decoded = text.string /\ TwoBytesEach

C20_Witness ==
  /\ Utf16Encoded /\ text.encoding = "utf-16be"
  /\ text.string = <<55358, 56708, 43003>>
  /\ text.bytes = <<216, 62, 221, 132, 167, 251>>
  /\ text.decoded = text.string

C20_WitnessBom ==
  /\ Utf16Encoded /\ text.encoding = "utf-16le"
  /\ text.string = <<65279, 65>>
  /\ text.bytes = <<255, 254, 65, 0>>
  /\ text.decoded = <<65>>

\* ---------------------------------------------------------------------- C21
\* The tokenizer of call d is the same one before and after the step.
SameTokenizer(d) ==
  /\ tokenizer[d].kind # "none"
  /\ tokenizer'[d].kind = tokenizer[d].kind
  /\ tokenizer'[d].data = tokenizer[d].data

\* C21: throughout a detection call the tokenizer position never decreases:
\* every read or skip of the detectors and container probes advances by a
\* non-negative amount.
C21_PositionNeverDecreases ==
  [][\A d \in Det : SameTokenizer(d) => tokenizer'[d].position >= tokenizer[d].position]_vars

\* The part of C21 about nested detections: an activation nested in another
\* on the same tokenizer (ID3 skip) starts at or after the start of its caller.
C21_NestedEntry ==
  \A d \in Det : \A k \in 2..Len(frames[d]) :
    frames[d][k].outer = NoTokenizer =>
      frames[d][k].initialPosition >= frames[d][k - 1].initialPosition

\* An ASF object that declares 8 bytes has been read from a buffer: the
\* tokenizer, at 54 after the object's header, is back at 38.
C21_MovedBack ==
  /\ pc[1] = "asfWalk" /\ api[1] = "fromBuffer"
  /\ input[1].bytes = AsfHeader \o AsfObject(OtherGuid, 8, <<>>) \o <<0>>
  /\ tokenizer[1].position = 38

\* ---------------------------------------------------------------------- C22
\* What the confident detector of the reference call 3 ended with: what it
\* returned, or the error it threw.
ConfidentAlone ==
  LET core == CHOOSE i \in DOMAIN log[3] : log[3][i].id = "core" /\ log[3][i].depth = 1
  IN  IF log[3][core].state = "returned" THEN Resolved(log[3][core].ft) ELSE outcome[3]

\* Call 1 is in the confident detector entered again after the mark was skipped.
AfterBomSkip ==
  /\ HasBom(input[1].bytes) /\ Len(frames[1]) = 1
  /\ pc[1] \in {"detectConfident", "signatures32"}
  /\ thisTokenizer[parser[1]] = 1
  /\ (pc[1] = "signatures32" => tokenizer[1].position > 0)

C22_WitnessConfidentOnly ==
  /\ Done(1) /\ Done(3) /\ ~signal /\ customDetectors = <<>>
  /\ input[1].bytes = Utf8Bom \o <<0, 0, 1, 0>>
  /\ outcome[1] = Resolved(undefined)
  /\ outcome[3] = Resolved(FT("ico", "image/x-icon"))

\* ---------------------------------------------------------------------- C23
\* The root element of an EBML input, read from a buffer over it.
RootElement(bytes) == readElement(BufferTokenizer(bytes), FALSE)

\* The whole payload the root element declares is in the input.
RootPayloadPresent(bytes) ==
  /\ Begins(bytes, EbmlId)
  /\ RootElement(bytes).error = ""
  /\ RootElement(bytes).tokenizer.position + RootElement(bytes).len <= Len(bytes)

\* The value of the first DocType element among the children that lie within
\* the bytes t.position .. end of the input.
RECURSIVE DocTypeWithin(_, _)
DocTypeWithin(t, end) ==
  LET element == readElement(t, FALSE)
      after == element.tokenizer.position + element.len
  IN  IF t.position >= end \/ element.error # "" \/ after > end THEN NoDocType
      ELSE IF element.id = DocTypeId
      THEN DocType(slice(t.data, element.tokenizer.position, after))
      ELSE DocTypeWithin([element.tokenizer EXCEPT !.position = after], end)

CutAtFirstNul(value) ==
  IF \E i \in DOMAIN value : value[i] = 0
  THEN SubSeq(value, 1, (CHOOSE i \in DOMAIN value : value[i] = 0 /\ \A j \in 1..(i - 1) : value[j] # 0) - 1)
  ELSE value

ExpectedEbml(bytes) ==
  LET root == RootElement(bytes)
      found == DocTypeWithin(root.tokenizer, root.tokenizer.position + root.len)
  IN  IF ~found.defined THEN undefined
      ELSE IF CutAtFirstNul(found.value) = Webm THEN FT("webm", "video/webm")
      ELSE IF CutAtFirstNul(found.value) = Matroska THEN FT("mkv", "video/matroska")
      ELSE undefined

\* C23: the search for the DocType element reads only the children that lie
\* within the first len bytes of the payload of the root; its value, cut at
\* the first NUL, maps webm to webm and matroska to mkv, anything else, or no
\* DocType within len bytes, to unknown.
C23_DocTypeWithinRoot ==
  (Done(1) /\ ~signal /\ RootPayloadPresent(input[1].bytes)) =>
    outcome[1] = Resolved(ExpectedEbml(input[1].bytes))

\* The DocType element lies after the 4 bytes of payload the root declares,
\* and decides.
C23_BeyondRoot ==
  /\ Done(1) /\ ~signal
  /\ input[1].bytes = EbmlId \o <<132>> \o EbmlVersion \o DocTypeElement(Webm)
  /\ ExpectedEbml(input[1].bytes) = undefined
  /\ outcome[1] = Resolved(FT("webm", "video/webm"))

\* Where the root declares the length of its children and the DocType has no
\* NUL followed by a line terminator, the code and C23 agree.
C23_Agree ==
  /\ Done(1) /\ ~signal
  /\ input[1].bytes = EbmlId \o <<141>> \o EbmlVersion \o DocTypeElement(Webm \o <<0, 0>>)
  /\ outcome[1] = Resolved(FT("webm", "video/webm"))
  /\ outcome[1] = Resolved(ExpectedEbml(input[1].bytes))

\* ---------------------------------------------------------------------- C24
\* The inflate streams of call d that are open.
OpenStreams(d) == Cardinality({i \in DOMAIN inflated[d] : inflated[d][i] = "open"})

\* The gzip arms of call d that have not been left: those a nested detection
\* is running in, and the one the nested detection has just returned to.
ArmsEntered(d) == GzipArms(d) + (IF pc[d] = "gzipReturn" THEN 1 ELSE 0)

\* C24: the inflate stream the gzip arm opens is cancelled on every exit of
\* the arm, by return (tar or anything else) and by error: the streams open
\* are those of the arms not left yet, and none is open once the call is over.
C24_InflateStreamCancelled ==
  \A d \in Det :
    /\ OpenStreams(d) = ArmsEntered(d)
    /\ pc[d] \in {"settle", "done"} => OpenStreams(d) = 0

\* The nested detection failed, and the stream is cancelled.
C24_Witness ==
  /\ Done(1) /\ outcome[1].state = "rejected"
  /\ inflated[1] = <<"cancelled">>

\* The nested detection returned tar.
C24_WitnessTar ==
  /\ Done(1) /\ outcome[1] = Resolved(FT("tar.gz", "application/gzip"))
  /\ inflated[1] = <<"cancelled">>

\* The nested detection returned something else, or nothing.
C24_WitnessOther ==
  /\ Done(1) /\ outcome[1] = Resolved(FT("gz", "application/gzip"))
  /\ inflated[1] = <<"cancelled">>

\* A gzip member within a gzip member: both streams are cancelled.
C24_WitnessNested ==
  /\ Done(1) /\ inflated[1] = <<"cancelled", "cancelled">>

\* ---------------------------------------------------------------------- C25
Returned(function) == applied.function = function /\ applied.returned # <<>>

\* The octal number in the 6 bytes at offset 148, cut at the first NUL
\* (Undefined when they hold none).
ChecksumField(B) == parseIntOctal(CutAtFirstNul(SubSeq(B, 149, 154)))

\* 8 * 0x20 + the sum of bytes[0..148) + the sum of bytes[156..512)
HeaderSum(B) == 8 * 32 + SumSeq(SubSeq(B, 1, 148)) + SumSeq(SubSeq(B, 157, 512))

\* C25: on a 512-byte header, tarHeaderChecksumMatches is true exactly when
\* the octal number in the 6 bytes at offset 148, cut at the first NUL, is
\* 8 * 0x20 plus the sum of the bytes before 148 and from 156 on; it is false
\* when the 6 bytes hold no octal number, as in a block of zeros.
C25_TarChecksum ==
  Returned("tarHeaderChecksumMatches") =>
    LET B == applied.buffer.bytes
    IN  /\ applied.returned[1] =
             (ChecksumField(B) # Undefined /\ ChecksumField(B) = HeaderSum(B))
        /\ ChecksumField(B) = Undefined => applied.returned[1] = FALSE
        /\ B = Zeros(512) => applied.returned[1] = FALSE

\* A header whose field holds the sum, ended by a NUL, with bytes that count
\* at both ends of both ranges and bytes that do not count after the field.
C25_Witness ==
  /\ Returned("tarHeaderChecksumMatches")
  /\ applied.buffer.bytes = TarBlock(97, 255, Octal(864, 5) \o <<0>>, <<255, 255>>, 1, 255)
  /\ applied.returned = <<TRUE>>

C25_WitnessZeros ==
  /\ Returned("tarHeaderChecksumMatches")
  /\ applied.buffer.bytes = Zeros(512)
  /\ applied.returned = <<FALSE>>

C25_WitnessWrongSum ==
  /\ Returned("tarHeaderChecksumMatches")
  /\ ChecksumField(applied.buffer.bytes) = HeaderSum(applied.buffer.bytes) + 1
  /\ applied.returned = <<FALSE>>

\* ---------------------------------------------------------------------- C26
\* (b0 & 0x7F) << 21 | (b1 & 0x7F) << 14 | (b2 & 0x7F) << 7 | (b3 & 0x7F)
SyncSafe(b) ==
  And(b[1], 127) * 2097152 + And(b[2], 127) * 16384 + And(b[3], 127) * 128 + And(b[4], 127)

\* C26: for every 4 bytes the ID3 sync-safe token decodes to
\* (b0 & 0x7F) << 21 | (b1 & 0x7F) << 14 | (b2 & 0x7F) << 7 | (b3 & 0x7F):
\* the high bit of every byte is ignored, and the value is in 0 .. 2^28 - 1.
C26_SyncSafe ==
  Returned("uint32SyncSafeToken") =>
    /\ applied.returned[1] = SyncSafe(applied.buffer.bytes)
    /\ applied.returned[1] \in 0..(2 ^ 28 - 1)

\* Where the first three bytes have their high bit clear, the code decodes as
\* C26 says, whatever the high bit of the last byte.
C26_HighBitsClear ==
  (Returned("uint32SyncSafeToken") /\ \A i \in 1..3 : applied.buffer.bytes[i] < 128) =>
    /\ applied.returned[1] = SyncSafe(applied.buffer.bytes)
    /\ applied.returned[1] \in 0..(2 ^ 28 - 1)

C26_LastByteMasked ==
  /\ Returned("uint32SyncSafeToken")
  /\ applied.buffer.bytes = <<1, 127, 1, 255>>
  /\ applied.returned = <<2097152 + 127 * 16384 + 128 + 127>>

\* 80 00 00 00 decodes to 2^28.
C26_HighBitKept ==
  /\ Returned("uint32SyncSafeToken")
  /\ applied.buffer.bytes = <<128, 0, 0, 0>>
  /\ applied.returned = <<2 ^ 28>>

\* ---------------------------------------------------------------------- C27
\* sample[i], where an index beyond the end of the sample reads as zero.
ZeroBeyond(sample, i) == Nz(At(sample, i))

MaskAt(mask, i) == IF i < Len(mask) THEN mask[i + 1] ELSE 0

BeyondEnd(sample, headers, options) ==
  \E i \in 0..(Len(headers) - 1) : options.offset + i >= sample.len

\* C27: check(sample, header, {offset, mask}) is true exactly when every
\* header[i] equals mask[i] & sample[offset + i] if a mask is given and
\* sample[offset + i] otherwise, where a sample index beyond the end of the
\* sample reads as zero, with and without a mask.
C27_Check ==
  Returned("check") =>
    applied.returned[1] =
      \A i \in 0..(Len(applied.headers) - 1) :
        applied.headers[i + 1] =
          IF applied.options.masked
          THEN And(MaskAt(applied.options.mask, i),
                   ZeroBeyond(applied.buffer, applied.options.offset + i))
          ELSE ZeroBeyond(applied.buffer, applied.options.offset + i)

\* C27 as amended: with a mask a sample index beyond the end of the sample
\* reads as zero; without a mask no header byte equals a sample index beyond
\* the end of the sample, so the check is false.
C27_CheckAmended ==
  Returned("check") =>
    applied.returned[1] =
      \A i \in 0..(Len(applied.headers) - 1) :
        IF applied.options.masked
        THEN applied.headers[i + 1] =
               And(MaskAt(applied.options.mask, i),
                   ZeroBeyond(applied.buffer, applied.options.offset + i))
        ELSE /\ applied.options.offset + i < applied.buffer.len
             /\ applied.headers[i + 1] = ZeroBeyond(applied.buffer, applied.options.offset + i)

\* Without a mask, a header of zeros beyond the end of the sample: false.
C27_Witness ==
  /\ Returned("check")
  /\ ~applied.options.masked
  /\ applied.headers = <<255, 0>> /\ applied.buffer = [len |-> 2, bytes |-> <<1, 255>>]
  /\ applied.options.offset = 1
  /\ applied.returned = <<FALSE>>

\* With a mask, the same header beyond the end of the sample: true.
C27_WitnessMasked ==
  /\ Returned("check")
  /\ applied.options.masked /\ applied.options.mask = <<255, 255>>
  /\ applied.headers = <<255, 0>> /\ applied.buffer = [len |-> 2, bytes |-> <<1, 255>>]
  /\ applied.options.offset = 1
  /\ applied.returned = <<TRUE>>

\* Within the sample, with an offset and a mask.
C27_WitnessWithin ==
  /\ Returned("check")
  /\ applied.options = Msk(1, <<1>>)
  /\ applied.headers = <<1>> /\ applied.buffer = [len |-> 2, bytes |-> <<0, 255>>]
  /\ applied.returned = <<TRUE>>

\* ---------------------------------------------------------------------- C28
Started(d) == pc[d] # "none"

\* C28: on every finite source a detection call terminates, with a result,
\* unknown or an error: every walk and every nested detection advances the
\* position or ends.
C28_Terminates == <>(\A d \in Det : Started(d) => Done(d))

\* The ASF walk of call d, on a buffer, is about to skip the payload of an
\* object that declares the size 0.
ZeroSizedObject(d) ==
  /\ pc[d] = "asfSkip"
  /\ tokenizer[d].kind = "buffer"
  /\ UINT64_LE(SubSeq(tokenizer[d].data, tokenizer[d].position - 7, tokenizer[d].position)) = 0

\* Every call terminates or comes to an ASF object of size 0 on a buffer.
C28_TerminatesOtherwise ==
  <>((\A d \in Det : Started(d) => Done(d)) \/ ZeroSizedObject(1))

\* Every object of the walk that declares another size leaves the position
\* after the place where its header began.
C28_OtherObjectsAdvance ==
  [][\A d \in Det : (pc[d] = "asfSkip" /\ pc'[d] = "asfWalk" /\ ~ZeroSizedObject(d))
        => tokenizer'[d].position > tokenizer[d].position - 24]_vars

\* ---------------------------------------------------------------------- C29
\* What an entry with a special name makes the result.
EntryType(entry) ==
  IF entry.filename = MozillaRsa THEN FT("xpi", "application/x-xpinstall")
  ELSE IF entry.filename = ManifestMf THEN Jar
  ELSE IF entry.filename = MimetypeName THEN mimetypeHandler(entry.data)
  ELSE IF entry.filename = ContentTypesXml THEN contentTypesHandler(entry.data)
  ELSE Apk

SpecialEntries(bytes) ==
  {i \in DOMAIN ZipListing(bytes, 0) : SpecialName(ZipListing(bytes, 0)[i].filename)}

FirstSpecial(bytes) ==
  ZipListing(bytes, 0)[CHOOSE i \in SpecialEntries(bytes) : \A j \in SpecialEntries(bytes) : i <= j]

\* C29: in the ZIP walk the first entry, in walk order, with a special name
\* decides the result and stops the walk: no later entry is read or changes
\* the result, and a mimetype or [Content_Types].xml entry whose media type is
\* not in the map gives plain zip.
C29_FirstSpecialEntryStops ==
  (Done(1) /\ IsZip(1) /\ ~signal /\ SpecialEntries(input[1].bytes) # {}) =>
    LET first == FirstSpecial(input[1].bytes)
    IN  /\ outcome[1] = Resolved(IF EntryType(first) = undefined THEN Zip ELSE EntryType(first))
        /\ first.filename \in {MimetypeName, ContentTypesXml}
             /\ (\A row \in MimeTypeTable : FT(row.ext, row.mime) # EntryType(first))
             => outcome[1] = Resolved(Zip)
        /\ tokenizer[1].position = first.end

\* mimetype with a media type that is not in the map, then META-INF/MANIFEST.MF:
\* zip, and the second entry is not read.
C29_Witness ==
  /\ Done(1) /\ IsZip(1) /\ ~signal
  /\ LET entries == ZipListing(input[1].bytes, 0)
     IN  /\ Len(entries) = 2
         /\ entries[1].filename = MimetypeName
         /\ entries[1].data = <<116, 101, 120, 116, 47, 112, 108, 97, 105, 110>>
         /\ entries[2].filename = ManifestMf
         /\ tokenizer[1].position = entries[1].end
  /\ outcome[1] = Resolved(Zip)

\* [Content_Types].xml with no media type of the map, then a classes.dex entry.
C29_WitnessContentTypes ==
  /\ Done(1) /\ IsZip(1) /\ ~signal
  /\ LET entries == ZipListing(input[1].bytes, 0)
     IN  /\ Len(entries) = 2
         /\ entries[1].filename = ContentTypesXml
         /\ contentTypesHandler(entries[1].data) = undefined
         /\ entries[2].filename = ClassesDexName
  /\ outcome[1] = Resolved(Zip)

\* An ordinary entry, then a mimetype entry of an epub.
C29_WitnessSecondEntry ==
  /\ Done(1) /\ IsZip(1) /\ ~signal
  /\ LET entries == ZipListing(input[1].bytes, 0)
     IN  /\ Len(entries) = 2
         /\ ~SpecialName(entries[1].filename)
         /\ entries[2].filename = MimetypeName
         /\ tokenizer[1].position = entries[2].end
  /\ outcome[1] = Resolved(Epub)

\* ---------------------------------------------------------------------- C30
\* Call d is fromBuffer on a Uint8Array or an ArrayBuffer of at most one byte.
ShortBuffer(d) ==
  /\ api[d] = "fromBuffer"
  /\ input[d].type \in {"Uint8Array", "ArrayBuffer"}
  /\ Len(input[d].bytes) <= 1

\* C30: fromBuffer on a valid input of length 0 or 1 returns unknown without
\* creating a tokenizer and without invoking any detector, custom detectors
\* that return a result for any input included.
C30_ShortInputUnknown ==
  \A d \in Det :
    ShortBuffer(d) =>
      /\ tokenizer[d] = NoTokenizer
      /\ frames[d] = <<>>
      /\ log[d] = <<>>
      /\ thisTokenizer[parser[d]] # d
      /\ pc[d] \in {"fromBuffer", "settle", "done"}
      /\ Done(d) => outcome[d] = Resolved(undefined)

\* One byte, and a custom detector first that returns a result for any input.
C30_Witness ==
  /\ Done(1) /\ ShortBuffer(1)
  /\ Len(input[1].bytes) = 1
  /\ customDetectors # <<>> /\ customDetectors[1] = "mock.png"
  /\ tokenizer[1] = NoTokenizer /\ log[1] = <<>>
  /\ outcome[1] = Resolved(undefined)

\* The same detector decides as soon as the input has two bytes.
C30_WitnessTwoBytes ==
  /\ Done(1) /\ api[1] = "fromBuffer"
  /\ Len(input[1].bytes) = 2
  /\ customDetectors = <<"mock.png">>
  /\ outcome[1] = Resolved(FT("mockPng", "image/mockPng"))
====
